---------------------------- MODULE Spec2Model ----------------------------
(***************************************************************************)
(* Host-side client of the IOTA Ledger application (ledger-iota-rs).       *)
(*                                                                         *)
(* Spec      : the block protocol engine (protocol::execute) driven by    *)
(*             one operation of the operation layer over a transport       *)
(*             whose exchange is one step; the device is the environment. *)
(* SpecLive  : Spec with the engine's loop taking its turn (weak fairness). *)
(* SpecXchg  : Transport::exchange of the two transports, step by step,    *)
(*             called by two threads on the same handle.                   *)
(* SpecPeer  : the same exchange against a peer that sends the bytes of a  *)
(*             script, well-formed or not.                                 *)
(* SpecConc  : two threads running operations on one connection.           *)
(* SpecApi   : the calls of one caller on the facade LedgerIota.            *)
(* SpecFn    : the codec, the chain builder, the status mapping and the    *)
(*             path constructors, each applied to one input.               *)
(*                                                                         *)
(* Bytes are naturals 0..255, byte strings are sequences of bytes.         *)
(***************************************************************************)
EXTENDS Integers, Sequences, FiniteSets, TLC

(***************************************************************************)
(* Byte-string helpers (slices, Vec::extend_from_slice, vec![b; n]).       *)
(***************************************************************************)
Take(s, n) == SubSeq(s, 1, n)

Drop(s, n) == SubSeq(s, n + 1, Len(s))

Repeat(b, n) == [i \in 1..n |-> b]

Reverse(s) == [i \in 1..Len(s) |-> s[Len(s) + 1 - i]]

Min(a, b) == IF a < b THEN a ELSE b

(***************************************************************************)
(* Bounds of the model.                                                    *)
(***************************************************************************)
\* Exchanges (START included) one operation may make before the device
\* must end it.
MaxExchanges == 3

(***************************************************************************)
(* protocol/chunks.rs                                                      *)
(***************************************************************************)
BLOCK_DATA_SIZE == 180

HASH_LEN == 32

ZeroHash == Repeat(0, HASH_LEN)

\* SHA-256 is the sha2 crate's; it is modelled as a deterministic digest of
\* HASH_LEN bytes that depends on every input byte and on the length, free
\* of collisions on the byte strings the model hashes. The digest is
\* folded as a balanced tree over data[lo..hi].
sha256_state(data, lo, hi) ==
    LET fold[a \in 1..(Len(data) + 1), b \in 0..Len(data)] ==
            IF a > b THEN 7
            ELSE IF a = b THEN data[a] + 11
            ELSE LET mid == (a + b) \div 2
                 IN  (fold[a, mid] * 131 + fold[mid + 1, b] * 31 + (b - a))
                       % 1000003
    IN  fold[lo, hi]

sha256(data) ==
    LET h == sha256_state(data, 1, Len(data))
    IN  [i \in 1..HASH_LEN |->
            IF i % 4 = 1 THEN h % 256
            ELSE IF i % 4 = 2 THEN (h \div 256) % 256
            ELSE IF i % 4 = 3 THEN (h \div 65536) % 256
            ELSE 165]

Block(next_hash, data) == [next_hash |-> next_hash, data |-> data]

serialized_len(block) == HASH_LEN + Len(block.data)

\* Block::serialize_into / Block::serialize
Block_serialize(block) == block.next_hash \o block.data

hash_block(block) == sha256(Block_serialize(block))

chunks_OneMore(data) ==
    LET size == BLOCK_DATA_SIZE + 1
        n == (Len(data) + size - 1) \div size
    IN  [k \in 1..n |->
            SubSeq(data, (k - 1) * size + 1, Min(k * size, Len(data)))]

\* data.chunks(BLOCK_DATA_SIZE)
chunks(data) ==
    LET n == (Len(data) + BLOCK_DATA_SIZE - 1) \div BLOCK_DATA_SIZE
    IN  [k \in 1..n |->
            SubSeq(data, (k - 1) * BLOCK_DATA_SIZE + 1,
                   Min(k * BLOCK_DATA_SIZE, Len(data)))]

\* The loop `for chunk in chunks.iter().rev()`: k is the chunk being
\* visited, blocks the vector pushed so far (tail first).
RECURSIVE build_rev(_, _, _, _)
build_rev(cs, k, next_hash, blocks) ==
    IF k = 0 THEN blocks
    ELSE LET block == Block(next_hash, cs[k])
         IN  build_rev(cs, k - 1, hash_block(block), Append(blocks, block))

build_block_chain_TailFirst(data) ==
    IF data = << >> THEN << Block(ZeroHash, << >>) >>
    ELSE build_rev(chunks(data), Len(chunks(data)), ZeroHash, << >>)

build_block_chain(data) ==
    IF data = << >> THEN << Block(ZeroHash, << >>) >>
    ELSE Reverse(build_rev(chunks(data), Len(chunks(data)), ZeroHash, << >>))


(***************************************************************************)
(* apdu.rs                                                                 *)
(***************************************************************************)
GetVersion == 0

VerifyAddress == 1

GetPubkey == 2

SignTx == 3

Quit == 255

APDU_MAX_DATA == 255

ApduCommand_with_data(ins, data) ==
    [cla |-> 0, ins |-> ins, p1 |-> 0, p2 |-> 0, data |-> data]

retcode_LittleEndian(raw) ==
    IF Len(raw) < 2 THEN 0
    ELSE raw[Len(raw)] * 256 + raw[Len(raw) - 1]

\* ApduAnswer::retcode
retcode(raw) ==
    IF Len(raw) < 2 THEN 0
    ELSE raw[Len(raw) - 1] * 256 + raw[Len(raw)]

\* data() that shows the payload only under the status word 0x9000.
data_of_OkOnly(raw) ==
    IF Len(raw) < 2 \/ raw[Len(raw) - 1] * 256 + raw[Len(raw)] # 36864 THEN << >>
    ELSE Take(raw, Len(raw) - 2)

\* ApduAnswer::data
data_of(raw) ==
    IF Len(raw) < 2 THEN << >>
    ELSE Take(raw, Len(raw) - 2)

(***************************************************************************)
(* error.rs                                                                *)
(***************************************************************************)
SW_Ok == 36864                    \* 0x9000

SW_DeviceLocked == 21781          \* 0x5515

SW_BlindSigningDisabled == 26632  \* 0x6808

SW_NothingReceived == 27010       \* 0x6982

SW_UserRejected == 27013          \* 0x6985

SW_GeneralError == 27904          \* 0x6D00

SW_WrongApp == 28160              \* 0x6E00

SW_AppNotOpen == 28161            \* 0x6E01

is_success(code) == code = SW_Ok

\* The String "unknown", in ASCII.
Name_unknown == << 117, 110, 107, 110, 111, 119, 110 >>

from_status_AllUnknown(code) ==
    [kind |-> "DeviceStatus", code |-> code, tag |-> "unknown"]

from_status_GeneralErrorApart(code) ==
    IF code = SW_DeviceLocked THEN [kind |-> "DeviceLocked"]
    ELSE IF code = SW_BlindSigningDisabled THEN [kind |-> "BlindSigningDisabled"]
    ELSE IF code = SW_NothingReceived
        THEN [kind |-> "DeviceStatus", code |-> code, tag |-> "nothing received"]
    ELSE IF code = SW_UserRejected THEN [kind |-> "UserRejected"]
    ELSE IF code = SW_WrongApp THEN [kind |-> "WrongApp", name |-> Name_unknown]
    ELSE IF code = SW_AppNotOpen THEN [kind |-> "AppNotOpen"]
    ELSE [kind |-> "DeviceStatus", code |-> code, tag |-> "unknown"]

from_status(code) ==
    IF code = SW_DeviceLocked THEN [kind |-> "DeviceLocked"]
    ELSE IF code = SW_BlindSigningDisabled THEN [kind |-> "BlindSigningDisabled"]
    ELSE IF code = SW_NothingReceived
        THEN [kind |-> "DeviceStatus", code |-> code, tag |-> "nothing received"]
    ELSE IF code = SW_UserRejected \/ code = SW_GeneralError
        THEN [kind |-> "UserRejected"]
    ELSE IF code = SW_WrongApp THEN [kind |-> "WrongApp", name |-> Name_unknown]
    ELSE IF code = SW_AppNotOpen THEN [kind |-> "AppNotOpen"]
    ELSE [kind |-> "DeviceStatus", code |-> code, tag |-> "unknown"]

\* LedgerError::BlockProtocol(msg), LedgerError::Transport(e),
\* LedgerError::InvalidResponse
BlockProtocol(msg) == [kind |-> "BlockProtocol", msg |-> msg]

Transport(e) == [kind |-> "Transport", err |-> e]

InvalidResponse(msg) == [kind |-> "InvalidResponse", msg |-> msg]

\* Result<_, LedgerError>
Ok(v) == [kind |-> "Ok", value |-> v]

Err(e) == [kind |-> "Err", error |-> e]

\* The call unwound: a panic crossed it.
Panicked == [kind |-> "Panic"]

None == [kind |-> "None"]

(***************************************************************************)
(* protocol/mod.rs: message tags                                           *)
(***************************************************************************)
HostMsg_Start == 0

HostMsg_GetChunkResponseSuccess == 1

HostMsg_GetChunkResponseFailure == 2

HostMsg_PutChunkResponse == 3

HostMsg_ResultAccumulatingResponse == 4

DeviceMsg_ResultAccumulating == 0

DeviceMsg_ResultFinal == 1

DeviceMsg_GetChunk == 2

DeviceMsg_PutChunk == 3

(***************************************************************************)
(* State.                                                                  *)
(***************************************************************************)
VARIABLES
    pc,            \* "idle": no operation yet; "loop": execute holds a
                   \* response to dispatch; "done": the operation returned
    call,          \* the running operation: [op, ins, params]
    hash_map,      \* execute's hash_map: block hash -> Block
    first_hashes,  \* execute's first_hashes, in parameter order
    put_store,     \* execute's put_store: SHA-256(chunk) -> chunk
    result,        \* execute's result buffer
    response,      \* execute's response: the raw bytes of the ApduAnswer
    sent,          \* the commands handed to transport.exchange, in order
    rcvd,          \* the raw responses transport.exchange returned, in order
    outcome,       \* what protocol::execute returned
    opResult,      \* what the operation returned to its caller
    xerr           \* the error transport.exchange returned, if it failed

evars == << pc, call, hash_map, first_hashes, put_store, result, response,
            sent, rcvd, outcome, opResult, xerr >>

EmptyMap == << >>

\* HashMap::insert: a later insert under the same key replaces the value.
insert(m, k, v) == (k :> v) @@ m

(***************************************************************************)
(* types.rs, commands/: the operations and their parameters                *)
(***************************************************************************)
le32(n) == << n % 256, (n \div 256) % 256, (n \div 65536) % 256,
              (n \div 16777216) % 256 >>

\* Bip32Path::iota(0, 0, 0).serialize(): [5][44'][4218'][0'][0'][0'],
\* each component u32 little-endian with the hardened bit in the last byte.
PathBytes == << 5, 44, 0, 0, 128, 122, 16, 0, 128, 0, 0, 0, 128,
                0, 0, 0, 128, 0, 0, 0, 128 >>

\* Option::Some
Some(v) == [kind |-> "Some", value |-> v]

\* objects.rs, encode_objects, the loop of lines 189-193 over objects
\* already encoded by ObjectData::encode.
RECURSIVE encode_each(_, _)
encode_each(encoded, i) ==
    IF i > Len(encoded) THEN << >>
    ELSE le32(Len(encoded[i])) \o encoded[i] \o encode_each(encoded, i + 1)

\* objects.rs, encode_objects: [count: u32 LE][obj_len: u32 LE][obj_data]...
encode_objects(encoded) == le32(Len(encoded)) \o encode_each(encoded, 1)

\* The parameter 3 of a list of one object whose encoding is 1, 2, 3.
ObjBytes == encode_objects(<< << 1, 2, 3 >> >>)

sign_tx_params_PathFirst(tx, path, objects) ==
    << path, le32(Len(tx)) \o tx >>
      \o (IF objects.kind = "Some" THEN << objects.value >> ELSE << >>)

\* commands::sign_tx::exec, lines 16-25
sign_tx_params(tx, path, objects) ==
    << le32(Len(tx)) \o tx, path >>
      \o (IF objects.kind = "Some" THEN << objects.value >> ELSE << >>)

\* A transaction of 200 bytes: its parameter spans two blocks.
Tx200 == [i \in 1..200 |-> i % 251]

\* The message "hi".
Msg_hi == << 104, 105 >>

sign_message_tx_NoIntent(message) == message

\* LedgerIota::sign_message: the intent prefix 3, 0, 0 and the message, the
\* transaction it hands to sign_tx with the path and no objects.
sign_message_tx(message) == << 3, 0, 0 >> \o message

\* The calls of protocol::execute the model makes: get-version, sign-tx,
\* get-pubkey, verify-address and quit as the operation layer makes them, sign-tx
\* as sign_message makes it, and a direct call with an empty and a short
\* parameter as the engine's unit tests make it.
Calls ==
    { [op |-> "get_version", ins |-> GetVersion, params |-> << >>],
      [op |-> "sign_tx", ins |-> SignTx,
       params |-> sign_tx_params(Tx200, PathBytes, None), objects |-> None],
      [op |-> "sign_tx", ins |-> SignTx,
       params |-> sign_tx_params(Tx200, PathBytes, Some(ObjBytes)),
       objects |-> Some(ObjBytes)],
      [op |-> "sign_message", ins |-> SignTx,
       params |-> sign_tx_params(sign_message_tx(Msg_hi), PathBytes, None)],
      [op |-> "get_pubkey", ins |-> GetPubkey, params |-> << PathBytes >>],
      [op |-> "verify_address", ins |-> VerifyAddress,
       params |-> << PathBytes >>],
      [op |-> "quit", ins |-> Quit, params |-> << >>],
      [op |-> "execute", ins |-> GetPubkey,
       params |-> << << >>, << 116, 101, 115, 116 >> >>] }

\* commands::sign_tx::parse_signature
parse_signature(data) ==
    IF Len(data) < 64
    THEN Err(InvalidResponse("expected 64-byte signature"))
    ELSE Ok(Take(data, 64))

\* U+FFFD in UTF-8.
REPLACEMENT == << 239, 191, 189 >>

\* The byte at offset i, 0 beyond the end.
safe_get(s, i) == IF i < Len(s) THEN s[i + 1] ELSE 0

is_continuation(b) == b >= 128 /\ b <= 191

\* The chunk of s that starts at offset i: one scalar value in UTF-8
\* (valid), or the longest prefix of one that an ill-formed sequence has.
utf8_chunk(s, i) ==
    LET b1 == s[i + 1]
        b2 == safe_get(s, i + 1)
        b3 == safe_get(s, i + 2)
        b4 == safe_get(s, i + 3)
        second_of_3 ==
            \/ b1 = 224 /\ b2 >= 160 /\ b2 <= 191
            \/ b1 >= 225 /\ b1 <= 236 /\ is_continuation(b2)
            \/ b1 = 237 /\ b2 >= 128 /\ b2 <= 159
            \/ b1 >= 238 /\ b1 <= 239 /\ is_continuation(b2)
        second_of_4 ==
            \/ b1 = 240 /\ b2 >= 144 /\ b2 <= 191
            \/ b1 >= 241 /\ b1 <= 243 /\ is_continuation(b2)
            \/ b1 = 244 /\ b2 >= 128 /\ b2 <= 143
    IN  IF b1 < 128 THEN [valid |-> TRUE, len |-> 1]
        ELSE IF b1 >= 194 /\ b1 <= 223
        THEN IF is_continuation(b2) THEN [valid |-> TRUE, len |-> 2]
             ELSE [valid |-> FALSE, len |-> 1]
        ELSE IF b1 >= 224 /\ b1 <= 239
        THEN IF ~second_of_3 THEN [valid |-> FALSE, len |-> 1]
             ELSE IF ~is_continuation(b3) THEN [valid |-> FALSE, len |-> 2]
             ELSE [valid |-> TRUE, len |-> 3]
        ELSE IF b1 >= 240 /\ b1 <= 244
        THEN IF ~second_of_4 THEN [valid |-> FALSE, len |-> 1]
             ELSE IF ~is_continuation(b3) THEN [valid |-> FALSE, len |-> 2]
             ELSE IF ~is_continuation(b4) THEN [valid |-> FALSE, len |-> 3]
             ELSE [valid |-> TRUE, len |-> 4]
        ELSE [valid |-> FALSE, len |-> 1]

\* The decoding of s from offset i on, chunk after chunk.
lossy_from(s, i) ==
    LET from[j \in 0..Len(s)] ==
            IF j >= Len(s) THEN << >>
            ELSE LET c == utf8_chunk(s, j)
                 IN  (IF c.valid THEN SubSeq(s, j + 1, j + c.len)
                      ELSE REPLACEMENT)
                       \o from[j + c.len]
    IN  from[i]

from_utf8_lossy_Bytes(s) == s

\* String::from_utf8_lossy(..).to_string(), the String as its UTF-8 bytes:
\* well-formed sequences are kept, every ill-formed one becomes U+FFFD.
from_utf8_lossy(s) == lossy_from(s, 0)

\* commands::get_version::parse_version_response
parse_version_response(data) ==
    IF Len(data) < 4
    THEN Err(InvalidResponse("version response too short"))
    ELSE Ok([major |-> data[1], minor |-> data[2], patch |-> data[3],
             name |-> from_utf8_lossy(Drop(data, 3))])

\* &data[lo..hi]: the bytes at offsets lo..hi-1; a panic when hi is beyond
\* the end.
slice(data, lo, hi) ==
    IF hi > Len(data) THEN Panicked ELSE Ok(SubSeq(data, lo + 1, hi))

parse_pubkey_response_NoAddressLengthTest(data) ==
    IF data = << >>
    THEN Err(InvalidResponse("empty pubkey response"))
    ELSE IF data[1] # 32 \/ Len(data) < 1 + data[1] + 1
    THEN Err(InvalidResponse("unexpected pubkey length"))
    ELSE LET pubkey == slice(data, 1, 33)
             addr_len == slice(data, 33, 34)
         IN  IF pubkey.kind = "Panic" \/ addr_len.kind = "Panic"
             THEN Panicked
             ELSE IF addr_len.value[1] # 32
             THEN Err(InvalidResponse("unexpected address length"))
             ELSE LET address == slice(data, 34, 66)
                  IN  IF address.kind = "Panic" THEN Panicked
                      ELSE Ok([pubkey |-> pubkey.value,
                               address |-> address.value])

\* commands::get_pubkey::parse_pubkey_response
parse_pubkey_response(data) ==
    IF data = << >>
    THEN Err(InvalidResponse("empty pubkey response"))
    ELSE IF data[1] # 32 \/ Len(data) < 1 + data[1] + 1
    THEN Err(InvalidResponse("unexpected pubkey length"))
    ELSE LET pubkey == slice(data, 1, 33)
             addr_len == slice(data, 33, 34)
         IN  IF pubkey.kind = "Panic" \/ addr_len.kind = "Panic"
             THEN Panicked
             ELSE IF addr_len.value[1] # 32
                       \/ Len(data) < 34 + addr_len.value[1]
             THEN Err(InvalidResponse("unexpected address length"))
             ELSE LET address == slice(data, 34, 66)
                  IN  IF address.kind = "Panic" THEN Panicked
                      ELSE Ok([pubkey |-> pubkey.value,
                               address |-> address.value])

\* The unit value ().
Unit == << >>

quit_result_Propagate(out) == IF out.kind = "Ok" THEN Ok(Unit) ELSE out

\* commands::quit::exec: `let _ = protocol::execute(..); Ok(())`; a panic
\* inside execute unwinds through it.
quit_result(out) == IF out.kind = "Panic" THEN out ELSE Ok(Unit)

\* `protocol::execute(..)?` followed by the operation's parser; quit has
\* neither.
op_result(op, out) ==
    IF op = "quit" THEN quit_result(out)
    ELSE IF out.kind # "Ok" THEN out
    ELSE IF op \in { "sign_tx", "sign_message" }
    THEN parse_signature(out.value)
    ELSE IF op \in { "get_pubkey", "verify_address" }
    THEN parse_pubkey_response(out.value)
    ELSE IF op = "get_version" THEN parse_version_response(out.value)
    ELSE out

(***************************************************************************)
(* protocol/mod.rs: execute, lines 43-64                                   *)
(***************************************************************************)
RECURSIVE insert_blocks(_, _, _)
insert_blocks(hm, blocks, i) ==
    IF i > Len(blocks) THEN hm
    ELSE insert_blocks(insert(hm, hash_block(blocks[i]), blocks[i]),
                       blocks, i + 1)

\* The loop over params: the index after params[i..].
RECURSIVE index_params(_, _, _)
index_params(params, i, hm) ==
    IF i > Len(params) THEN hm
    ELSE index_params(params, i + 1,
                      insert_blocks(hm, build_block_chain(params[i]), 1))

head_hashes_SkipEmpty(params) ==
    LET ne == SelectSeq(params, LAMBDA q : q # << >>)
    IN  [i \in 1..Len(ne) |-> hash_block(build_block_chain(ne[i])[1])]

\* first_hashes: blocks.first() of each chain (a chain is never empty).
head_hashes(params) ==
    [i \in 1..Len(params) |-> hash_block(build_block_chain(params[i])[1])]

RECURSIVE concat(_)
concat(ss) == IF ss = << >> THEN << >> ELSE Head(ss) \o concat(Tail(ss))

start_data(fh) == << HostMsg_Start >> \o concat(fh)

(***************************************************************************)
(* The environment: the device behind transport.exchange.                  *)
(***************************************************************************)
SwBytes(code) == << code \div 256, code % 256 >>

\* Status words the device attaches: success, user-rejected, locked,
\* absent (0) and one outside the taxonomy (0x1234).
StatusWords == { SW_Ok, SW_UserRejected, SW_DeviceLocked, 0, 4660 }

UnknownHash == Repeat(170, HASH_LEN)

\* A chunk as long as a command's data field: its get-chunk reply,
\* [0x01] || chunk, is one byte too long for a short-form command.
BigChunk == Repeat(9, APDU_MAX_DATA)

\* execute's index and head hashes for each call of Calls (lines 43-55),
\* tabulated once: they depend on the parameters alone.
hash_map_of == [c \in Calls |-> index_params(c.params, 1, EmptyMap)]

first_hashes_of == [c \in Calls |-> head_hashes(c.params)]

\* Chunks the device pushes: a short one, BigChunk, and the serialized head
\* block of the first parameter (its SHA-256 is that block's hash).
PutChunks ==
    [c \in Calls |->
        { << 5, 6 >>, BigChunk }
          \cup (IF c.params = << >> THEN {}
                ELSE { Block_serialize(hash_map_of[c][first_hashes_of[c][1]]) })]

\* The hash of the block of the parameter "test": a block of the direct
\* call of Calls, and of no other call.
TestBlockHash == hash_block(Block(ZeroHash, << 116, 101, 115, 116 >>))

\* Hashes the device asks for: every pre-built block, every chunk it may
\* push (before or after pushing it), a block of another call, and one
\* nobody holds.
AskedHashes ==
    [c \in Calls |->
        (DOMAIN hash_map_of[c]) \cup { sha256(d) : d \in PutChunks[c] }
          \cup { TestBlockHash, UnknownHash }]

Signature64 == [i \in 1..64 |-> 200 + (i % 7)]

VersionBytes == << 0, 9, 0, 105, 111, 116, 97 >>

\* Responses after which execute sends another command.
DevContinuing ==
    [c \in Calls |->
        { << DeviceMsg_ResultAccumulating >> \o b \o SwBytes(SW_Ok)
            : b \in { << >>, << 8, 9 >> } }
          \cup { << DeviceMsg_ResultAccumulating, 7 >> \o SwBytes(SW_UserRejected),
                 << DeviceMsg_PutChunk, 5, 6 >> \o SwBytes(SW_UserRejected) }
          \cup { << DeviceMsg_GetChunk >> \o h \o SwBytes(SW_Ok)
                   : h \in AskedHashes[c] }
          \cup { << DeviceMsg_PutChunk >> \o d \o SwBytes(SW_Ok)
                   : d \in PutChunks[c] }]

\* Responses that end execute.
DevTerminal ==
    { << DeviceMsg_ResultFinal >> \o b \o SwBytes(SW_Ok)
        : b \in { << >>, Signature64, VersionBytes } }
      \cup { << DeviceMsg_ResultFinal >> \o Signature64 \o SwBytes(SW_UserRejected) }
      \cup { SwBytes(sw) : sw \in StatusWords }
      \cup { << >>, << 144 >> }
      \cup { << 255 >> \o SwBytes(SW_Ok), << 4, 1 >> \o SwBytes(SW_Ok) }
      \cup { << DeviceMsg_GetChunk >> \o Repeat(187, n) \o SwBytes(SW_Ok)
               : n \in { 0, HASH_LEN - 1 } }

\* The names an application reports, in ASCII: "iota", "IOTA", "My Iota"
\* and "BTC".
Name_iota == << 105, 111, 116, 97 >>

Name_IOTA == << 73, 79, 84, 65 >>

Name_MyIota == << 77, 121, 32, 73, 111, 116, 97 >>

Name_BTC == << 66, 84, 67 >>

\* Results of get-version the device may give: major, minor, patch and the
\* name; the first is VersionBytes, the last is too short to parse.
VersionResults ==
    { << 0, 9, 0 >> \o Name_iota, << 0, 8, 255 >> \o Name_iota,
      << 0, 10, 0 >> \o Name_IOTA, << 1, 0, 0 >> \o Name_MyIota,
      << 1, 0, 0 >> \o Name_BTC, << 0, 8, 255 >> \o Name_BTC,
      << 0, 9, 0 >> }

\* What the device may answer to get-version beyond DevTerminal: the
\* results above, and the status words of the locked device, the
\* dashboard and other applications.
ProbeAnswers ==
    { << DeviceMsg_ResultFinal >> \o v \o SwBytes(SW_Ok) : v \in VersionResults }
      \cup { SwBytes(sw) : sw \in { SW_AppNotOpen, SW_WrongApp,
                                     SW_BlindSigningDisabled,
                                     SW_NothingReceived, SW_GeneralError } }

\* A well-formed result of get-pubkey: [32][pubkey][32][address].
Pubkey66 == << 32 >> \o Repeat(170, 32) \o << 32 >> \o Repeat(187, 32)

\* Results of get-pubkey and verify-address the device may give: the
\* well-formed one, with a trailing byte, cut at 65, 44, 34, 33, 11 and 1
\* bytes, and with a key or an address length other than 32.
PubkeyResults ==
    { Pubkey66, Pubkey66 \o << 1 >> }
      \cup { Take(Pubkey66, n) : n \in { 65, 44, 34, 33, 11, 1 } }
      \cup { << 31 >> \o Repeat(0, 64), << 33 >> \o Repeat(0, 66),
             << 32 >> \o Repeat(0, 32) \o << 31 >> \o Repeat(0, 64),
             << 32 >> \o Repeat(0, 32) \o << 33 >> \o Repeat(0, 33) }

PubkeyAnswers ==
    { << DeviceMsg_ResultFinal >> \o v \o SwBytes(SW_Ok) : v \in PubkeyResults }

\* Results of get-version whose name is not ASCII: the bytes FF FE, "iota"
\* followed by FF, the letter e with acute accent (C3 A9), the first two
\* bytes of the euro sign (E2 82), a surrogate (ED A0 80), and the first
\* three bytes of U+1F600 followed by "a" (F0 9F 98 61).
LossyResults ==
    { << 1, 0, 0 >> \o nm :
        nm \in { << 255, 254 >>, Name_iota \o << 255 >>, << 195, 169 >>,
                 << 226, 130 >>, << 237, 160, 128 >>,
                 << 240, 159, 152, 97 >> } }

LossyAnswers ==
    { << DeviceMsg_ResultFinal >> \o v \o SwBytes(SW_Ok) : v \in LossyResults }

DevResponses(c, n) ==
    DevTerminal
      \cup (IF c.op = "get_version" THEN LossyAnswers ELSE {})
      \cup (IF c.op \in { "get_pubkey", "verify_address" }
            THEN PubkeyAnswers ELSE {})
      \cup (IF c.op = "get_version" THEN ProbeAnswers ELSE {})
      \cup (IF n < MaxExchanges THEN DevContinuing[c] ELSE {})

\* error.rs: TransportError values the transports return.
TransportErrors ==
    { [kind |-> "Timeout", ms |-> 30000],
      [kind |-> "Comm", msg |-> "HID channel mismatch"] }

\* What transport.exchange(cmd) can do as the n-th exchange of call c:
\* both transports serialize the command first (hid.rs:182, tcp.rs:36),
\* which panics on more than 255 data bytes (apdu.rs:41); otherwise it
\* returns an answer or a transport error.
exchange(cmd, c, n) ==
    IF Len(cmd.data) > APDU_MAX_DATA THEN { Panicked }
    ELSE { Ok(r) : r \in DevResponses(c, n) }
           \cup { Err(e) : e \in TransportErrors }

(***************************************************************************)
(* protocol/mod.rs: execute and send_apdu                                  *)
(***************************************************************************)
put_store_Kept == put_store

\* line 58: let mut put_store = HashMap::new(), a local of execute: every
\* call makes its own, and none outlives its call.
new_put_store == EmptyMap

\* execute returns `out`: the operation's parser runs on it and the locals
\* of execute are dropped.
Returns(c, out) ==
    /\ pc' = "done"
    /\ call' = c
    /\ outcome' = out
    /\ opResult' = op_result(c.op, out)
    /\ hash_map' = EmptyMap
    /\ first_hashes' = << >>
    /\ put_store' = new_put_store
    /\ result' = << >>
    /\ response' = << >>

map_err_Retag(e) == Transport([kind |-> "Comm", msg |-> "exchange failed"])

\* send_apdu, line 138: .map_err(LedgerError::Transport)
map_err(e) == Transport(e)

\* send_apdu(transport, ins, data)? as execute calls it, the locals being
\* hm, fh, ps and res when it is called: on Ok the loop goes on with the
\* answer, on Err the `?` returns from execute, a panic unwinds.
send_apdu(c, data, hm, fh, ps, res) ==
    LET cmd == ApduCommand_with_data(c.ins, data)
    IN  /\ sent' = Append(sent, cmd)
        /\ \E ans \in exchange(cmd, c, Len(sent) + 1) :
             IF ans.kind = "Ok"
             THEN /\ pc' = "loop"
                  /\ call' = c
                  /\ response' = ans.value
                  /\ rcvd' = Append(rcvd, ans.value)
                  /\ hash_map' = hm
                  /\ first_hashes' = fh
                  /\ put_store' = ps
                  /\ result' = res
                  /\ outcome' = None
                  /\ opResult' = None
                  /\ xerr' = None
             ELSE /\ rcvd' = rcvd
                  /\ xerr' = (IF ans.kind = "Err" THEN ans.error ELSE None)
                  /\ Returns(c, IF ans.kind = "Err"
                                THEN Err(map_err(ans.error)) ELSE Panicked)

\* lines 71-77
empty_response_error_NoZeroTest(code) ==
    IF ~is_success(code) THEN from_status(code)
    ELSE BlockProtocol("empty response")

empty_response_error(code) ==
    IF code # 0 /\ ~is_success(code) THEN from_status(code)
    ELSE BlockProtocol("empty response")

accumulate_Replace(res, data) == Tail(data)

\* lines 81, 85: result.extend_from_slice(&data[1..])
accumulate(res, data) == res \o Tail(data)

acc_ack_PutTag == << HostMsg_PutChunkResponse >>

\* line 86
acc_ack == << HostMsg_ResultAccumulatingResponse >>

\* line 90
get_chunk_too_short(data) == Len(data) < 33

get_chunk_reply_DataOnly(hm, ps, hash) ==
    IF hash \in DOMAIN hm
    THEN << HostMsg_GetChunkResponseSuccess >> \o hm[hash].data
    ELSE IF hash \in DOMAIN ps
    THEN << HostMsg_GetChunkResponseSuccess >> \o ps[hash]
    ELSE << HostMsg_GetChunkResponseFailure >>

\* lines 98-111
get_chunk_reply(hm, ps, hash) ==
    IF hash \in DOMAIN hm
    THEN << HostMsg_GetChunkResponseSuccess >> \o Block_serialize(hm[hash])
    ELSE IF hash \in DOMAIN ps
    THEN << HostMsg_GetChunkResponseSuccess >> \o ps[hash]
    ELSE << HostMsg_GetChunkResponseFailure >>

put_chunk_BlockHash(ps, chunk_data) ==
    insert(ps, hash_block(Block(ZeroHash, chunk_data)), chunk_data)

put_chunk_Forget(ps, chunk_data) ==
    insert(EmptyMap, sha256(chunk_data), chunk_data)

\* lines 114-116
put_chunk(ps, chunk_data) == insert(ps, sha256(chunk_data), chunk_data)

\* lines 43-67: index the parameters, send START.
Start(c) ==
    /\ pc = "idle"
    /\ sent = << >>
    /\ rcvd = << >>
    /\ send_apdu(c, start_data(first_hashes_of[c]), hash_map_of[c],
                 first_hashes_of[c], new_put_store, << >>)

\* lines 70-77
EmptyResponse ==
    /\ pc = "loop"
    /\ data_of(response) = << >>
    /\ Returns(call, Err(empty_response_error(retcode(response))))
    /\ UNCHANGED << sent, rcvd, xerr >>

\* lines 80-83
ResultFinal ==
    /\ pc = "loop"
    /\ data_of(response) # << >>
    /\ data_of(response)[1] = DeviceMsg_ResultFinal
    /\ Returns(call, Ok(accumulate(result, data_of(response))))
    /\ UNCHANGED << sent, rcvd, xerr >>

\* lines 84-88
ResultAccumulating ==
    /\ pc = "loop"
    /\ data_of(response) # << >>
    /\ data_of(response)[1] = DeviceMsg_ResultAccumulating
    /\ send_apdu(call, acc_ack, hash_map, first_hashes, put_store,
                 accumulate(result, data_of(response)))

\* lines 89-112
GetChunk ==
    /\ pc = "loop"
    /\ data_of(response) # << >>
    /\ data_of(response)[1] = DeviceMsg_GetChunk
    /\ IF get_chunk_too_short(data_of(response))
       THEN /\ Returns(call, Err(BlockProtocol("GET_CHUNK response too short")))
            /\ UNCHANGED << sent, rcvd, xerr >>
       ELSE send_apdu(call,
                      get_chunk_reply(hash_map, put_store,
                                      SubSeq(data_of(response), 2, 33)),
                      hash_map, first_hashes, put_store, result)

\* lines 113-119
PutChunk ==
    /\ pc = "loop"
    /\ data_of(response) # << >>
    /\ data_of(response)[1] = DeviceMsg_PutChunk
    /\ send_apdu(call, << HostMsg_PutChunkResponse >>, hash_map, first_hashes,
                 put_chunk(put_store, Tail(data_of(response))), result)

UnknownMessage_AsFinal ==
    /\ pc = "loop"
    /\ data_of(response) # << >>
    /\ data_of(response)[1] \notin
         { DeviceMsg_ResultFinal, DeviceMsg_ResultAccumulating,
           DeviceMsg_GetChunk, DeviceMsg_PutChunk }
    /\ Returns(call, Ok(accumulate(result, data_of(response))))
    /\ UNCHANGED << sent, rcvd, xerr >>

\* lines 120-124
UnknownMessage ==
    /\ pc = "loop"
    /\ data_of(response) # << >>
    /\ data_of(response)[1] \notin
         { DeviceMsg_ResultFinal, DeviceMsg_ResultAccumulating,
           DeviceMsg_GetChunk, DeviceMsg_PutChunk }
    /\ Returns(call, Err(BlockProtocol("unknown device message type")))
    /\ UNCHANGED << sent, rcvd, xerr >>

EInit ==
    /\ pc = "idle"
    /\ call = None
    /\ hash_map = EmptyMap
    /\ first_hashes = << >>
    /\ put_store = EmptyMap
    /\ result = << >>
    /\ response = << >>
    /\ sent = << >>
    /\ rcvd = << >>
    /\ outcome = None
    /\ opResult = None
    /\ xerr = None

(***************************************************************************)
(* transport/hid.rs and transport/tcp.rs: Transport::exchange, one step    *)
(* per call on the device handle, for threads sharing one transport.       *)
(***************************************************************************)
\* hid.rs, line 9: 0x0101
LEDGER_CHANNEL == 257

LEDGER_TAG == 5

LEDGER_PACKET_WRITE_SIZE == 65

LEDGER_PACKET_READ_SIZE == 64

LEDGER_TIMEOUT_MS == 30000

CHUNK_SIZE == LEDGER_PACKET_WRITE_SIZE - 6

\* tcp.rs, line 50
MAX_RESPONSE_LEN_OneLess == 256 * 256 - 1

MAX_RESPONSE_LEN == 65536

\* slice::chunks(n): consecutive pieces of n elements, the last one shorter.
slice_chunks(s, n) ==
    [k \in 1..((Len(s) + n - 1) \div n) |->
        SubSeq(s, (k - 1) * n + 1, Min(k * n, Len(s)))]

serialize_panics_Beyond256(cmd) == Len(cmd.data) > APDU_MAX_DATA + 1

\* apdu.rs, lines 41-45: the assertion of serialize fails.
serialize_panics(cmd) == Len(cmd.data) > APDU_MAX_DATA

\* apdu.rs, lines 46-53
ApduCommand_serialize(cmd) ==
    << cmd.cla, cmd.ins, cmd.p1, cmd.p2, Len(cmd.data) % 256 >> \o cmd.data

\* u32::to_be_bytes
to_be_bytes(n) ==
    << (n \div 16777216) % 256, (n \div 65536) % 256,
       (n \div 256) % 256, n % 256 >>

\* u32::from_be_bytes.  The integers of the model end at 2^31 - 1, which
\* stands for every value from 2^31 on: the comparisons made with a length
\* (against 65536 and against the bytes at hand) come out the same.
from_be_bytes(b) ==
    IF b[1] >= 128 THEN 2147483647
    ELSE ((b[1] * 256 + b[2]) * 256 + b[3]) * 256 + b[4]

\* write_apdu numbering its buffers from 1.
hid_write_packets_SeqFromOne(apdu) ==
    LET payload == << (Len(apdu) \div 256) % 256, Len(apdu) % 256 >> \o apdu
        cs == slice_chunks(payload, CHUNK_SIZE)
    IN  [k \in 1..Len(cs) |->
            << 0, (LEDGER_CHANNEL \div 256) % 256, LEDGER_CHANNEL % 256,
               LEDGER_TAG, (k \div 256) % 256, k % 256 >>
            \o cs[k] \o Repeat(0, CHUNK_SIZE - Len(cs[k]))]

\* hid.rs write_apdu: the buffers handed to device.write, in order.
hid_write_packets(apdu) ==
    LET payload == << (Len(apdu) \div 256) % 256, Len(apdu) % 256 >> \o apdu
        cs == slice_chunks(payload, CHUNK_SIZE)
    IN  [k \in 1..Len(cs) |->
            << 0, (LEDGER_CHANNEL \div 256) % 256, LEDGER_CHANNEL % 256,
               LEDGER_TAG, ((k - 1) \div 256) % 256, (k - 1) % 256 >>
            \o cs[k] \o Repeat(0, CHUNK_SIZE - Len(cs[k]))]

\* tcp.rs, lines 42-45: the buffers handed to write_all, in order (the
\* flush of a TcpStream writes nothing).
tcp_write_buffers(apdu) == << to_be_bytes(Len(apdu)), apdu >>

wire_writes(kind, apdu) ==
    IF kind = "hid" THEN hid_write_packets(apdu) ELSE tcp_write_buffers(apdu)

\* The threads sharing the transport, the instruction each one sends and
\* the data it may send: a command of one packet, one of two HID packets,
\* one of three, and one that serialize refuses.
Threads == { 1, 2 }

XIns(t) == IF t = 1 THEN GetPubkey ELSE SignTx

XData(t) == { << t >>, Repeat(t, 60), Repeat(t, 120),
             Repeat(t, APDU_MAX_DATA + 1) }

VARIABLES
    xkind,      \* which transport the threads share: "hid" or "tcp"
    owner,      \* the thread holding the MutexGuard of the handle, 0: none
    poisoned,   \* the Mutex is poisoned
    tpc,        \* per thread: "idle", "lock", "write", "read", "done"
    tcmd,       \* per thread: the command of its exchange
    tout,       \* per thread: buffers still to be written
    trd,        \* per thread: locals of the read side
    tret,       \* per thread: what exchange returned
    devRx,      \* device: bytes of the command being received
    devPending, \* device: responses computed, not yet sent
    fromDev,    \* handle: what the device sent and no read has taken
    iolog       \* the threads whose calls reached the handle, in order

xvars == << xkind, owner, poisoned, tpc, tcmd, tout, trd, tret,
            devRx, devPending, fromDev, iolog >>

\* Device side of the HID framing that write_apdu speaks (hid.rs, lines
\* 87-104): a packet of sequence 0 opens a command with its length, the
\* next ones continue it, anything else is dropped.
HidRxIdle == [len |-> -1, bytes |-> << >>, next |-> 0]

dev_hid_accept(rx, pkt) ==
    LET seq == pkt[5] * 256 + pkt[6]
        body == SubSeq(pkt, 7, Len(pkt))
    IN  IF seq = 0
        THEN [len |-> body[1] * 256 + body[2], bytes |-> Drop(body, 2),
              next |-> 1]
        ELSE IF rx.len >= 0 /\ seq = rx.next
        THEN [len |-> rx.len, bytes |-> rx.bytes \o body, next |-> seq + 1]
        ELSE HidRxIdle

dev_hid_complete(rx) == rx.len >= 0 /\ Len(rx.bytes) >= rx.len

\* Device side of the TCP framing (tcp.rs, lines 11 and 88-93): a 4-byte
\* length, then that many bytes of command.
dev_tcp_complete(rx) ==
    Len(rx) >= 4 /\ Len(rx) >= 4 + from_be_bytes(Take(rx, 4))

\* The device application's raw answer (payload and status word) to a
\* command: it names the instruction and the data length, so that answers
\* to different commands differ.
DevResponse(apdu) ==
    IF Len(apdu) < 5 THEN SwBytes(SW_GeneralError)
    ELSE << apdu[2] >> \o Repeat(apdu[2] + 16, apdu[5]) \o SwBytes(SW_Ok)

\* The device after `buf` was written to the handle: << devRx, devPending >>.
dev_receive(kind, rx, pending, buf) ==
    IF kind = "hid"
    THEN LET r == dev_hid_accept(rx, buf)
         IN  IF dev_hid_complete(r)
             THEN << HidRxIdle, Append(pending, DevResponse(Take(r.bytes, r.len))) >>
             ELSE << r, pending >>
    ELSE LET r == rx \o buf
         IN  IF dev_tcp_complete(r)
             THEN LET n == from_be_bytes(Take(r, 4))
                  IN  << Drop(r, 4 + n),
                         Append(pending, DevResponse(SubSeq(r, 5, 4 + n))) >>
             ELSE << r, pending >>

\* Device side of the HID framing that read_apdu parses (hid.rs, lines
\* 129-163): 64-byte packets of channel, tag, sequence, and in the first
\* one the length, in front of the data.
hid_read_packets(raw) ==
    LET payload == << (Len(raw) \div 256) % 256, Len(raw) % 256 >> \o raw
        cs == slice_chunks(payload, LEDGER_PACKET_READ_SIZE - 5)
    IN  [k \in 1..Len(cs) |->
            << (LEDGER_CHANNEL \div 256) % 256, LEDGER_CHANNEL % 256,
               LEDGER_TAG, ((k - 1) \div 256) % 256, (k - 1) % 256 >>
            \o cs[k]
            \o Repeat(0, LEDGER_PACKET_READ_SIZE - 5 - Len(cs[k]))]

\* Device side of the TCP framing that exchange parses (tcp.rs, lines
\* 47-60 and 95-102): the length of the payload, the payload, and the
\* status word bare after it.
tcp_response_bytes(raw) ==
    to_be_bytes(Len(raw) - 2) \o raw

\* The locals of the read side when reading starts (hid.rs, lines 115-118;
\* tcp.rs, line 47), and what this exchange has read off the handle so far
\* (packets on HID, bytes on TCP).
ReadStart == [result |-> << >>, expected_len |-> -1, seq_idx |-> 0,
              stage |-> "len", taken |-> << >>]

\* The read locals of t after `got` was read off the handle.
Taking(t, got) == [trd EXCEPT ![t].taken = @ \o got]

\* hid.rs, line 181; tcp.rs, line 40: the error of lock() on a poisoned mutex.
PoisonError == [kind |-> "Comm", msg |-> "mutex poisoned"]

\* Mutex::lock returns when no other thread holds the guard.
can_lock_NoExclusion(t) == TRUE

can_lock(t) == owner = 0

\* exchange returns r from inside the guarded section: the guard is dropped.
XReturn(t, r) ==
    /\ tpc' = [tpc EXCEPT ![t] = "done"]
    /\ tret' = [tret EXCEPT ![t] = r]
    /\ owner' = 0

\* A thread calls exchange(command).  tcp.rs, line 36: the TCP transport
\* serializes before it locks, so the panic of serialize leaves the mutex
\* alone.
XCall(t, data) ==
    /\ tpc[t] = "idle"
    /\ LET cmd == ApduCommand_with_data(XIns(t), data)
       IN  /\ tcmd' = [tcmd EXCEPT ![t] = cmd]
           /\ IF xkind = "tcp" /\ serialize_panics(cmd)
              THEN /\ tpc' = [tpc EXCEPT ![t] = "done"]
                   /\ tret' = [tret EXCEPT ![t] = Panicked]
              ELSE /\ tpc' = [tpc EXCEPT ![t] = "lock"]
                   /\ tret' = tret
    /\ UNCHANGED << xkind, owner, poisoned, tout, trd, devRx, devPending,
                    fromDev, iolog >>

\* As XLock, with a lock that takes a poisoned mutex as if it were sound.
XLock_IgnorePoison(t) ==
    /\ tpc[t] = "lock"
    /\ can_lock(t)
    /\ IF xkind = "hid" /\ serialize_panics(tcmd[t])
       THEN /\ XReturn(t, Panicked)
            /\ poisoned' = TRUE
            /\ tout' = tout
       ELSE /\ owner' = t
            /\ tpc' = [tpc EXCEPT ![t] = "write"]
            /\ tout' = [tout EXCEPT
                          ![t] = wire_writes(xkind, ApduCommand_serialize(tcmd[t]))]
            /\ UNCHANGED << poisoned, tret >>
    /\ UNCHANGED << xkind, tcmd, trd, devRx, devPending, fromDev, iolog >>

\* hid.rs, lines 178-182; tcp.rs, lines 37-42: lock() (an error when the
\* mutex is poisoned); the HID transport serializes under the guard, so the
\* panic of serialize poisons the mutex as the guard is dropped.
XLock(t) ==
    /\ tpc[t] = "lock"
    /\ can_lock(t)
    /\ IF poisoned
       THEN /\ XReturn(t, Err(PoisonError))
            /\ UNCHANGED << poisoned, tout >>
       ELSE IF xkind = "hid" /\ serialize_panics(tcmd[t])
       THEN /\ XReturn(t, Panicked)
            /\ poisoned' = TRUE
            /\ tout' = tout
       ELSE /\ owner' = t
            /\ tpc' = [tpc EXCEPT ![t] = "write"]
            /\ tout' = [tout EXCEPT
                          ![t] = wire_writes(xkind, ApduCommand_serialize(tcmd[t]))]
            /\ UNCHANGED << poisoned, tret >>
    /\ UNCHANGED << xkind, tcmd, trd, devRx, devPending, fromDev, iolog >>

\* hid.rs, lines 106-108; tcp.rs, lines 43-45: one buffer goes to the
\* handle; after the last one the read side starts.
XWrite(t) ==
    /\ tpc[t] = "write"
    /\ LET d == dev_receive(xkind, devRx, devPending, Head(tout[t]))
       IN  /\ devRx' = d[1]
           /\ devPending' = d[2]
    /\ iolog' = Append(iolog, t)
    /\ tout' = [tout EXCEPT ![t] = Tail(tout[t])]
    /\ IF Tail(tout[t]) = << >>
       THEN /\ tpc' = [tpc EXCEPT ![t] = "read"]
            /\ trd' = [trd EXCEPT ![t] = ReadStart]
       ELSE UNCHANGED << tpc, trd >>
    /\ UNCHANGED << xkind, owner, poisoned, tcmd, tret, fromDev >>

\* hid.rs, lines 108 and 123; tcp.rs, the `?` of lines 43-60: the call on
\* the handle fails in the operating system and exchange returns the error.
XIoError(t) ==
    /\ tpc[t] \in { "write", "read" }
    /\ iolog' = Append(iolog, t)
    /\ XReturn(t, Err(IF xkind = "hid"
                      THEN [kind |-> "Comm", msg |-> "hidapi error"]
                      ELSE [kind |-> "Io", msg |-> "os error"]))
    /\ UNCHANGED << xkind, poisoned, tcmd, tout, trd, devRx, devPending,
                    fromDev >>

read_take_Available(remaining, available) == available

\* hid.rs, line 156: `remaining.min(available)`
read_take(remaining, available) == Min(remaining, available)

\* hid.rs read_apdu, one turn of its loop (lines 121-169); no packet within
\* the timeout is a read of 0 bytes.
HidRead(t) ==
    IF fromDev = << >>
    THEN /\ XReturn(t, Err([kind |-> "Timeout", ms |-> LEDGER_TIMEOUT_MS]))
         /\ UNCHANGED << fromDev, trd >>
    ELSE
    LET buffer == Head(fromDev)
        n == Len(buffer)
        l == trd[t]
        channel == buffer[1] * 256 + buffer[2]
        pkt_seq == buffer[4] * 256 + buffer[5]
        data_start == IF l.seq_idx = 0 THEN 7 ELSE 5
        expected_len == IF l.seq_idx = 0 THEN buffer[6] * 256 + buffer[7]
                        ELSE l.expected_len
        remaining == expected_len - Len(l.result)
        available == n - data_start
        take == read_take(remaining, available)
        res == l.result \o SubSeq(buffer, data_start + 1, data_start + take)
    IN  /\ fromDev' = Tail(fromDev)
        /\ IF channel # LEDGER_CHANNEL
           THEN /\ XReturn(t, Err([kind |-> "Comm", msg |-> "HID channel mismatch"]))
                /\ trd' = Taking(t, << buffer >>)
           ELSE IF buffer[3] # LEDGER_TAG
           THEN /\ XReturn(t, Err([kind |-> "Comm", msg |-> "HID tag mismatch"]))
                /\ trd' = Taking(t, << buffer >>)
           ELSE IF pkt_seq # l.seq_idx
           THEN /\ XReturn(t, Err([kind |-> "Comm", msg |-> "sequence mismatch"]))
                /\ trd' = Taking(t, << buffer >>)
           ELSE IF n < data_start
           THEN /\ XReturn(t, Err([kind |-> "Comm", msg |-> "HID short read"]))
                /\ trd' = Taking(t, << buffer >>)
           ELSE IF Len(res) >= expected_len
           THEN /\ XReturn(t, Ok(res))
                /\ trd' = Taking(t, << buffer >>)
           ELSE /\ trd' = [trd EXCEPT ![t] =
                             [result |-> res, expected_len |-> expected_len,
                              seq_idx |-> l.seq_idx + 1, stage |-> l.stage,
                              taken |-> Append(l.taken, buffer)]]
                /\ UNCHANGED << tpc, tret, owner >>

\* tcp.rs, lines 47-62, one read_exact at a time: the length, the payload,
\* the status word.  A read_exact that finds fewer bytes than it asks for
\* within the timeout fails, having taken what was there.
TcpRead(t) ==
    LET l == trd[t]
        want == IF l.stage = "len" THEN 4
                ELSE IF l.stage = "payload" THEN l.expected_len ELSE 2
    IN  IF Len(fromDev) < want
        THEN /\ fromDev' = << >>
             /\ XReturn(t, Err([kind |-> "Io", msg |-> "timed out"]))
             /\ trd' = Taking(t, fromDev)
        ELSE /\ fromDev' = Drop(fromDev, want)
             /\ IF l.stage = "len"
                THEN IF from_be_bytes(Take(fromDev, 4)) > MAX_RESPONSE_LEN
                     THEN /\ XReturn(t, Err([kind |-> "Comm",
                                             msg |-> "response too large"]))
                          /\ trd' = Taking(t, Take(fromDev, 4))
                     ELSE /\ trd' = [trd EXCEPT ![t] =
                                 [result |-> << >>,
                                  expected_len |-> from_be_bytes(Take(fromDev, 4)),
                                  seq_idx |-> 0, stage |-> "payload",
                                  taken |-> l.taken \o Take(fromDev, 4)]]
                          /\ UNCHANGED << tpc, tret, owner >>
                ELSE IF l.stage = "payload"
                THEN /\ trd' = [trd EXCEPT ![t] =
                                 [result |-> Take(fromDev, want),
                                  expected_len |-> l.expected_len,
                                  seq_idx |-> 0, stage |-> "sw",
                                  taken |-> l.taken \o Take(fromDev, want)]]
                     /\ UNCHANGED << tpc, tret, owner >>
                ELSE /\ XReturn(t, Ok(l.result \o Take(fromDev, 2)))
                     /\ trd' = Taking(t, Take(fromDev, 2))

XRead(t) ==
    /\ tpc[t] = "read"
    /\ iolog' = Append(iolog, t)
    /\ IF xkind = "hid" THEN HidRead(t) ELSE TcpRead(t)
    /\ UNCHANGED << xkind, poisoned, tcmd, tout, devRx, devPending >>

\* The device sends the answer to the oldest command it has not answered.
DevAnswer ==
    /\ devPending # << >>
    /\ fromDev' = fromDev \o (IF xkind = "hid"
                              THEN hid_read_packets(Head(devPending))
                              ELSE tcp_response_bytes(Head(devPending)))
    /\ devPending' = Tail(devPending)
    /\ UNCHANGED << xkind, owner, poisoned, tpc, tcmd, tout, trd, tret,
                    devRx, iolog >>

\* What the mock server of the tests of tcp.rs sends once it has consumed
\* the request: normal_exchange (lines 95-102), zero_length_response (lines
\* 124-127), response_too_large_rejected (lines 150-152: the length
\* alone); and besides them a length that is too large with bytes after
\* it, and a frame of the largest length accepted.
TcpScripts ==
    { to_be_bytes(2) \o << 170, 187 >> \o << 144, 0 >>,
      to_be_bytes(0) \o << 144, 0 >>,
      to_be_bytes(MAX_RESPONSE_LEN + 1),
      to_be_bytes(MAX_RESPONSE_LEN + 1) \o << 170, 187, 144, 0 >>,
      to_be_bytes(MAX_RESPONSE_LEN) \o Repeat(7, MAX_RESPONSE_LEN) \o << 105, 133 >> }

\* A packet as read_apdu takes it off the handle: channel, tag, sequence
\* number, then the data area filled up with `fill`.
HidPacket(channel, tag, seq, body, fill) ==
    << (channel \div 256) % 256, channel % 256, tag,
       (seq \div 256) % 256, seq % 256 >>
      \o body \o Repeat(fill, LEDGER_PACKET_READ_SIZE - 5 - Len(body))

\* The frames write_apdu makes of a command, each without its report
\* prefix, which is how the operating system hands a report to a reader.
WrittenFrames(apdu) ==
    LET ps == hid_write_packets(apdu)
    IN  [k \in 1..Len(ps) |-> Tail(ps[k])]

\* What a peer on the HID handle sends in answer to a command: the
\* command's own frames; responses of 0, 2 and 122 bytes; a response of two
\* bytes whose packet is filled up with 255; a first packet of a foreign
\* channel, of a foreign tag, of sequence number 1; a second packet of
\* sequence number 2.
HidScripts(apdu) ==
    { WrittenFrames(apdu),
      hid_read_packets(<< >>),
      hid_read_packets(<< 144, 0 >>),
      hid_read_packets(Repeat(9, 120) \o << 144, 0 >>),
      << HidPacket(LEDGER_CHANNEL, LEDGER_TAG, 0, << 0, 2, 144, 0 >>, 255) >>,
      << HidPacket(LEDGER_CHANNEL + 1, LEDGER_TAG, 0, << 0, 2, 144, 0 >>, 0) >>,
      << HidPacket(LEDGER_CHANNEL, LEDGER_TAG + 1, 0, << 0, 2, 144, 0 >>, 0) >>,
      << HidPacket(LEDGER_CHANNEL, LEDGER_TAG, 1, << 0, 2, 144, 0 >>, 0) >>,
      << HidPacket(LEDGER_CHANNEL, LEDGER_TAG, 0, << 0, 100 >> \o Repeat(9, 57), 0),
         HidPacket(LEDGER_CHANNEL, LEDGER_TAG, 2, Repeat(9, 43), 0) >> }

\* The peer answers the command of the thread that is about to read.
PeerSends ==
    \E t \in Threads :
        /\ tpc[t] = "read"
        /\ trd[t] = ReadStart
        /\ fromDev = << >>
        /\ \E s \in (IF xkind = "hid"
                      THEN HidScripts(ApduCommand_serialize(tcmd[t]))
                      ELSE TcpScripts) : fromDev' = s
        /\ UNCHANGED << xkind, owner, poisoned, tpc, tcmd, tout, trd, tret,
                        devRx, devPending, iolog >>

\* HidTransport::new (hid.rs, lines 72-75), TcpTransport::new (tcp.rs,
\* lines 28-30): a fresh mutex around an open handle.
XInit ==
    /\ xkind \in { "hid", "tcp" }
    /\ owner = 0
    /\ poisoned = FALSE
    /\ tpc = [t \in Threads |-> "idle"]
    /\ tcmd = [t \in Threads |-> None]
    /\ tout = [t \in Threads |-> << >>]
    /\ trd = [t \in Threads |-> ReadStart]
    /\ tret = [t \in Threads |-> None]
    /\ devRx = (IF xkind = "hid" THEN HidRxIdle ELSE << >>)
    /\ devPending = << >>
    /\ fromDev = << >>
    /\ iolog = << >>

(***************************************************************************)
(* api.rs: operations of two threads on one connection.  LedgerIota's      *)
(* methods take &self and the transport is Send + Sync (transport/mod.rs,  *)
(* line 14), so two threads may be inside protocol::execute at once; each  *)
(* has its own locals, and each exchange is one step (the transport's      *)
(* guard is held for one exchange).  The variables of execute are those of *)
(* the running thread, ctx keeps those of the other.                       *)
(***************************************************************************)
VARIABLES
    cur,    \* the thread whose step comes next
    ctx,    \* per thread: the locals of its execute while it does not run
    wire    \* the commands exchanged with the device, in order, with
            \* the thread whose operation sent each

cvars == << cur, ctx, wire >>

\* The locals of a thread that has not called yet.
CtxIdle ==
    [pc |-> "idle", call |-> None, hash_map |-> EmptyMap,
     first_hashes |-> << >>, put_store |-> EmptyMap, result |-> << >>,
     response |-> << >>, sent |-> << >>, rcvd |-> << >>, outcome |-> None,
     opResult |-> None, xerr |-> None]

CtxNow ==
    [pc |-> pc, call |-> call, hash_map |-> hash_map,
     first_hashes |-> first_hashes, put_store |-> put_store,
     result |-> result, response |-> response, sent |-> sent, rcvd |-> rcvd,
     outcome |-> outcome, opResult |-> opResult, xerr |-> xerr]

\* The operation each thread invokes.
ConcCall(t) ==
    IF t = 1
    THEN [op |-> "execute", ins |-> GetPubkey,
          params |-> << << >>, << 116, 101, 115, 116 >> >>]
    ELSE [op |-> "get_version", ins |-> GetVersion, params |-> << >>]

\* What the device answers in these runs.
ConcResponses ==
    { << DeviceMsg_ResultFinal >> \o VersionBytes \o SwBytes(SW_Ok),
      << DeviceMsg_ResultAccumulating, 8, 9 >> \o SwBytes(SW_Ok),
      << DeviceMsg_PutChunk, 5, 6 >> \o SwBytes(SW_Ok),
      << DeviceMsg_GetChunk >> \o UnknownHash \o SwBytes(SW_Ok),
      << 255 >> \o SwBytes(SW_Ok),
      SwBytes(SW_DeviceLocked) }

\* The scheduler lets thread t run: nothing orders the steps of two
\* threads but the guard, which no thread holds between two exchanges.
Switch(t) ==
    /\ t # cur
    /\ cur' = t
    /\ ctx' = [ctx EXCEPT ![cur] = CtxNow, ![t] = CtxIdle]
    /\ pc' = ctx[t].pc
    /\ call' = ctx[t].call
    /\ hash_map' = ctx[t].hash_map
    /\ first_hashes' = ctx[t].first_hashes
    /\ put_store' = ctx[t].put_store
    /\ result' = ctx[t].result
    /\ response' = ctx[t].response
    /\ sent' = ctx[t].sent
    /\ rcvd' = ctx[t].rcvd
    /\ outcome' = ctx[t].outcome
    /\ opResult' = ctx[t].opResult
    /\ xerr' = ctx[t].xerr
    /\ wire' = wire

\* A step of the running thread: the command it sends, if any, reaches the
\* device after those sent before.
Runs ==
    /\ UNCHANGED << cur, ctx >>
    /\ wire' = (IF Len(sent') > Len(sent)
                THEN Append(wire, [t |-> cur, cmd |-> sent'[Len(sent')]])
                ELSE wire)
    /\ Len(rcvd') > Len(rcvd) => rcvd'[Len(rcvd')] \in ConcResponses

CInit ==
    /\ cur = 1
    /\ ctx = [t \in Threads |-> CtxIdle]
    /\ wire = << >>

(***************************************************************************)
(* api.rs: the facade LedgerIota over one transport                        *)
(***************************************************************************)
\* Facade calls one behaviour makes after the connection exists.
MaxCalls == 2

\* line 20
MIN_VERSION == << 0, 9, 0 >>

\* str::to_ascii_lowercase on ASCII bytes
to_ascii_lowercase(s) ==
    [i \in DOMAIN s |-> IF s[i] >= 65 /\ s[i] <= 90 THEN s[i] + 32 ELSE s[i]]

\* str::contains
contains(s, sub) ==
    \E i \in 0..(Len(s) - Len(sub)) : SubSeq(s, i + 1, i + Len(sub)) = sub

is_iota_app_CaseSensitive(name) == contains(name, Name_iota)

\* lines 37-39
is_iota_app(name) == contains(to_ascii_lowercase(name), Name_iota)

\* The order of tuples of three: a >= b
tuple_ge(a, b) ==
    \/ a[1] > b[1]
    \/ a[1] = b[1] /\ a[2] > b[2]
    \/ a[1] = b[1] /\ a[2] = b[2] /\ a[3] >= b[3]

version_ok_Componentwise(v) ==
    v.major >= MIN_VERSION[1] /\ v.minor >= MIN_VERSION[2]
      /\ v.patch >= MIN_VERSION[3]

\* lines 177-179
version_ok(v) == tuple_ge(<< v.major, v.minor, v.patch >>, MIN_VERSION)

\* enum DeviceStatus, lines 24-35
Connected == [st |-> "Connected"]

Locked == [st |-> "Locked"]

AppClosed == [st |-> "AppClosed"]

WrongAppStatus(name) == [st |-> "WrongApp", name |-> name]

Disconnected == [st |-> "Disconnected"]

\* LedgerError::WrongApp(name)
WrongApp(name) == [kind |-> "WrongApp", name |-> name]

\* TransportError::DeviceNotFound, ConnectionFailed(_), Comm(_)
DeviceNotFound == [kind |-> "DeviceNotFound"]

ConnectionFailed == [kind |-> "ConnectionFailed", msg |-> "refused"]

Unsupported == [kind |-> "Comm", msg |-> "reconnect not supported"]

\* The implementations of the trait Transport a LedgerIota may hold: the
\* two of the crate, and one handed to with_transport that overrides
\* reconnect.
Impls == { "hid", "tcp", "custom" }

\* transport::open, mod.rs lines 36-53: HidTransport::new (hid.rs 61-79)
\* finds no device or fails to open it, TcpTransport::new (tcp.rs 21-31)
\* fails to connect.
transport_open(ti, plug) ==
    IF ti = "hid"
    THEN (IF plug THEN { Ok(ti), Err([kind |-> "Comm", msg |-> "open failed"]) }
          ELSE { Err(DeviceNotFound) })
    ELSE { Ok(ti), Err(ConnectionFailed) }

default_reconnect_Ok == Ok("tcp")

\* Transport::reconnect, mod.rs lines 21-23: the default of the trait.
default_reconnect == Err(Unsupported)

\* The reconnect of the packetized transport: it opens a device anew and
\* replaces the handle, and fails when there is no device to open.
hid_reconnect(plug) == IF plug THEN { Ok("hid") } ELSE { Err(DeviceNotFound) }

\* self.transport.reconnect() through the trait object: TcpTransport has
\* the default; an implementation handed to with_transport that overrides
\* it drops the connection and opens a fresh one, or fails.
transport_reconnect(ti, plug) ==
    IF ti = "tcp" THEN { default_reconnect }
    ELSE IF ti = "hid" THEN hid_reconnect(plug)
    ELSE IF plug THEN { Ok(ti), Err([kind |-> "Comm", msg |-> "open failed"]) }
    ELSE { Err(DeviceNotFound) }

\* HidTransport::is_device_present(): whether the physical layer reports a
\* device plugged in.
is_device_present(plug) == plug

\* check_status, lines 137-142 and 162: the first probe, but for the
\* transport error.
first_probe_status(r) ==
    IF r.kind = "Ok"
    THEN (IF is_iota_app(r.value.name) THEN Connected
          ELSE WrongAppStatus(r.value.name))
    ELSE IF r.error.kind = "DeviceLocked" THEN Locked
    ELSE IF r.error.kind = "AppNotOpen" THEN AppClosed
    ELSE IF r.error.kind = "WrongApp" THEN WrongAppStatus(r.error.name)
    ELSE Disconnected

\* check_status, lines 148-156: the probe after a reconnect.
second_probe_status(r) ==
    IF r.kind = "Ok"
    THEN (IF is_iota_app(r.value.name) THEN Connected
          ELSE WrongAppStatus(r.value.name))
    ELSE IF r.error.kind = "DeviceLocked" THEN Locked
    ELSE IF r.error.kind = "AppNotOpen" THEN AppClosed
    ELSE IF r.error.kind = "WrongApp" THEN WrongAppStatus(r.error.name)
    ELSE Locked

\* new, lines 56-67: what new returns on the result r of get_version.
new_result(r) ==
    IF r.kind # "Ok" THEN r
    ELSE IF ~is_iota_app(r.value.name) THEN Err(WrongApp(r.value.name))
    ELSE IF ~version_ok(r.value) THEN Err(InvalidResponse("app is too old"))
    ELSE Ok("ledger")

reconnect_result_AnyName(r) == IF r.kind # "Ok" THEN r ELSE Ok("unit")

\* reconnect, lines 169-173
reconnect_result(r) ==
    IF r.kind # "Ok" THEN r
    ELSE IF ~is_iota_app(r.value.name) THEN Err(WrongApp(r.value.name))
    ELSE Ok("unit")

VARIABLES
    conn,     \* "none", or "open": a LedgerIota exists
    timpl,    \* the implementation of Transport it holds
    gen,      \* how often that transport replaced its handle
    plugged,  \* a device is plugged in
    afn,      \* the facade function called last
    apc,      \* where it is: "idle", "probe1", "reconnect", .. , "ret"
    acall,    \* the operation it runs at this point
    aret,     \* what it returned
    alog,     \* what it did, in order
    held,     \* hashes earlier operations of this connection held
    ncalls    \* the calls made so far

avars == << conn, timpl, gen, plugged, afn, apc, acall, aret, alog, held,
            ncalls >>

GetVersionCall == [op |-> "get_version", ins |-> GetVersion, params |-> << >>]

\* The direct call of Calls.
TestCall ==
    [op |-> "execute", ins |-> GetPubkey,
     params |-> << << >>, << 116, 101, 115, 116 >> >>]

\* What the device answers to an operation of these runs that is no probe.
OpResponses ==
    { << DeviceMsg_ResultFinal >> \o VersionBytes \o SwBytes(SW_Ok),
      << DeviceMsg_ResultAccumulating, 8, 9 >> \o SwBytes(SW_Ok),
      << DeviceMsg_PutChunk, 5, 6 >> \o SwBytes(SW_Ok),
      << DeviceMsg_GetChunk >> \o sha256(<< 5, 6 >>) \o SwBytes(SW_Ok),
      << DeviceMsg_GetChunk >> \o TestBlockHash \o SwBytes(SW_Ok),
      << 255 >> \o SwBytes(SW_Ok),
      SwBytes(SW_UserRejected) }

\* What it answers to a probe: one message.
ProbeResponses ==
    ProbeAnswers \cup { SwBytes(SW_DeviceLocked), SwBytes(SW_UserRejected),
                        << 255 >> \o SwBytes(SW_Ok) }

\* The hashes the operation that has just returned held: the blocks of its
\* parameters and the chunks the device pushed.
HeldBy ==
    (DOMAIN hash_map_of[call])
      \cup { sha256(SubSeq(rcvd[j], 2, Len(rcvd[j]) - 2))
               : j \in { k \in 1..Len(rcvd) :
                           /\ Len(rcvd[k]) >= 3
                           /\ rcvd[k][1] = DeviceMsg_PutChunk
                           /\ (k < Len(rcvd) \/ outcome.kind # "Panic") } }

\* The facade function is inside an operation.
InOperation == apc \in { "probe", "probe1", "probe2", "op" }

\* A step of execute inside a facade function leaves the facade alone.
ApiRuns ==
    /\ UNCHANGED avars
    /\ Len(rcvd') > Len(rcvd) =>
         rcvd'[Len(rcvd')] \in (IF apc = "op" THEN OpResponses
                                ELSE ProbeResponses)
    /\ xerr' \in { None, [kind |-> "Timeout", ms |-> LEDGER_TIMEOUT_MS] }

\* The facade function reads the result of the operation it ran.
Collect ==
    /\ pc = "done"
    /\ pc' = "idle"
    /\ call' = None
    /\ sent' = << >>
    /\ rcvd' = << >>
    /\ outcome' = None
    /\ opResult' = None
    /\ xerr' = None
    /\ held' = held \cup HeldBy
    /\ UNCHANGED << hash_map, first_hashes, put_store, result, response >>

CanCall ==
    /\ apc \in { "idle", "ret" }
    /\ pc = "idle"
    /\ ncalls < MaxCalls

\* with_transport, lines 71-73
WithTransport ==
    /\ apc = "idle"
    /\ conn = "none"
    /\ conn' = "open"
    /\ timpl' \in Impls
    /\ plugged' \in BOOLEAN
    /\ afn' = "with_transport"
    /\ apc' = "ret"
    /\ aret' = Ok("ledger")
    /\ UNCHANGED << gen, acall, alog, held, ncalls >>
    /\ UNCHANGED evars

\* new, lines 53-54: transport::open(transport_type)?
New ==
    /\ CanCall
    /\ conn = "none"
    /\ plugged' \in BOOLEAN
    /\ \E ti \in { "hid", "tcp" } : \E r \in transport_open(ti, plugged') :
         /\ timpl' = ti
         /\ alog' = << [ev |-> "open", res |-> r.kind] >>
         /\ IF r.kind = "Ok"
            THEN apc' = "probe" /\ aret' = None /\ acall' = GetVersionCall
            ELSE apc' = "ret" /\ aret' = Err(Transport(r.error))
                   /\ acall' = None
    /\ afn' = "new"
    /\ ncalls' = ncalls + 1
    /\ UNCHANGED << conn, gen, held >>
    /\ UNCHANGED evars

\* new, lines 56-67
NewProbed ==
    /\ afn = "new" /\ apc = "probe"
    /\ Collect
    /\ aret' = new_result(opResult)
    /\ conn' = (IF new_result(opResult).kind = "Ok" THEN "open" ELSE "none")
    /\ alog' = Append(alog, [ev |-> "probe", res |-> opResult])
    /\ apc' = "ret"
    /\ UNCHANGED << timpl, gen, plugged, afn, acall, ncalls >>

\* An operation of the facade: get_version, or the engine on a parameter.
Operation(c) ==
    /\ CanCall
    /\ conn = "open"
    /\ plugged' \in BOOLEAN
    /\ afn' = "op"
    /\ apc' = "op"
    /\ acall' = c
    /\ aret' = None
    /\ alog' = << >>
    /\ ncalls' = ncalls + 1
    /\ UNCHANGED << conn, timpl, gen, held >>
    /\ UNCHANGED evars

OperationDone ==
    /\ afn = "op" /\ apc = "op"
    /\ Collect
    /\ aret' = opResult
    /\ alog' = Append(alog, [ev |-> "probe", res |-> opResult])
    /\ apc' = "ret"
    /\ UNCHANGED << conn, timpl, gen, plugged, afn, acall, ncalls >>

\* check_status, line 137: match self.get_version()
CheckStatus ==
    /\ CanCall
    /\ conn = "open"
    /\ plugged' \in BOOLEAN
    /\ afn' = "check_status"
    /\ apc' = "probe1"
    /\ acall' = GetVersionCall
    /\ aret' = None
    /\ alog' = << >>
    /\ ncalls' = ncalls + 1
    /\ UNCHANGED << conn, timpl, gen, held >>
    /\ UNCHANGED evars

\* check_status, lines 138-162: the arms of the first match; on a
\* transport error, line 145: if HidTransport::is_device_present()
CheckStatusProbed ==
    /\ afn = "check_status" /\ apc = "probe1"
    /\ Collect
    /\ IF opResult.kind = "Err" /\ opResult.error.kind = "Transport"
       THEN IF is_device_present(plugged)
            THEN /\ apc' = "reconnect"
                 /\ aret' = None
                 /\ alog' = alog \o << [ev |-> "probe", res |-> opResult],
                                       [ev |-> "present", res |-> "TRUE"] >>
            ELSE /\ apc' = "ret"
                 /\ aret' = Disconnected
                 /\ alog' = alog \o << [ev |-> "probe", res |-> opResult],
                                       [ev |-> "present", res |-> "FALSE"] >>
       ELSE /\ apc' = "ret"
            /\ aret' = first_probe_status(opResult)
            /\ alog' = Append(alog, [ev |-> "probe", res |-> opResult])
    /\ UNCHANGED << conn, timpl, gen, plugged, afn, acall, ncalls >>

\* check_status, lines 148-156: the arms of the second match
CheckStatusReprobed ==
    /\ afn = "check_status" /\ apc = "probe2"
    /\ Collect
    /\ apc' = "ret"
    /\ aret' = second_probe_status(opResult)
    /\ alog' = Append(alog, [ev |-> "probe", res |-> opResult])
    /\ UNCHANGED << conn, timpl, gen, plugged, afn, acall, ncalls >>

\* reconnect, line 168: self.transport.reconnect()?
Reconnect ==
    /\ CanCall
    /\ conn = "open"
    /\ plugged' \in BOOLEAN
    /\ afn' = "reconnect"
    /\ apc' = "reconnect"
    /\ acall' = GetVersionCall
    /\ aret' = None
    /\ alog' = << >>
    /\ ncalls' = ncalls + 1
    /\ UNCHANGED << conn, timpl, gen, held >>
    /\ UNCHANGED evars

\* As TransportReconnect, but check_status tries again after a failure.
TransportReconnect_Retry ==
    /\ apc = "reconnect"
    /\ Len(alog) < 6
    /\ \E r \in transport_reconnect(timpl, plugged) :
         /\ alog' = Append(alog, [ev |-> "reconnect", res |-> r.kind,
                                  impl |-> timpl, plug |-> plugged,
                                  err |-> IF r.kind = "Err" THEN r.error
                                          ELSE None,
                                  gen0 |-> gen,
                                  gen1 |-> IF r.kind = "Ok" THEN gen + 1
                                           ELSE gen])
         /\ gen' = (IF r.kind = "Ok" THEN gen + 1 ELSE gen)
         /\ IF r.kind = "Ok"
            THEN /\ apc' = (IF afn = "check_status" THEN "probe2" ELSE "probe")
                 /\ aret' = None
            ELSE /\ apc' = (IF afn = "check_status" THEN "reconnect" ELSE "ret")
                 /\ aret' = (IF afn = "check_status" THEN None
                             ELSE Err(Transport(r.error)))
    /\ UNCHANGED << conn, timpl, plugged, afn, acall, held, ncalls >>
    /\ UNCHANGED evars

\* self.transport.reconnect() in check_status (line 146: Ok goes on to the
\* second probe, Err returns Locked at line 159) and in reconnect (line
\* 168: the `?` returns the error as LedgerError::Transport).
TransportReconnect ==
    /\ apc = "reconnect"
    /\ \E r \in transport_reconnect(timpl, plugged) :
         /\ alog' = Append(alog, [ev |-> "reconnect", res |-> r.kind,
                                  impl |-> timpl, plug |-> plugged,
                                  err |-> IF r.kind = "Err" THEN r.error
                                          ELSE None,
                                  gen0 |-> gen,
                                  gen1 |-> IF r.kind = "Ok" THEN gen + 1
                                           ELSE gen])
         /\ gen' = (IF r.kind = "Ok" THEN gen + 1 ELSE gen)
         /\ IF r.kind = "Ok"
            THEN /\ apc' = (IF afn = "check_status" THEN "probe2" ELSE "probe")
                 /\ aret' = None
            ELSE /\ apc' = "ret"
                 /\ aret' = (IF afn = "check_status" THEN Locked
                             ELSE Err(Transport(r.error)))
    /\ UNCHANGED << conn, timpl, plugged, afn, acall, held, ncalls >>
    /\ UNCHANGED evars

\* reconnect, lines 169-173
ReconnectProbed ==
    /\ afn = "reconnect" /\ apc = "probe"
    /\ Collect
    /\ apc' = "ret"
    /\ aret' = reconnect_result(opResult)
    /\ alog' = Append(alog, [ev |-> "probe", res |-> opResult])
    /\ UNCHANGED << conn, timpl, gen, plugged, afn, acall, ncalls >>

AInit ==
    /\ conn = "none"
    /\ timpl = "hid"
    /\ gen = 0
    /\ plugged = TRUE
    /\ afn = "none"
    /\ apc = "idle"
    /\ acall = None
    /\ aret = None
    /\ alog = << >>
    /\ held = {}
    /\ ncalls = 0

(***************************************************************************)
(* types.rs: Bip32Path.  A u32 is kept as its top bit (hard) and its low   *)
(* 31 bits (low).                                                          *)
(***************************************************************************)
u32(n) == [hard |-> FALSE, low |-> n]

\* c | HARDENED
hardened(c) == [hard |-> TRUE, low |-> c.low]

\* LedgerError::InvalidPath
InvalidPath(msg) == [kind |-> "InvalidPath", msg |-> msg]

validate_NoHardenedLoop(p) ==
    IF Len(p) < 2
    THEN Err(InvalidPath("path must have at least 2 components"))
    ELSE IF p[1] # hardened(u32(44))
    THEN Err(InvalidPath("first component must be 44'"))
    ELSE IF p[2] # hardened(u32(4218)) /\ p[2] # hardened(u32(1))
    THEN Err(InvalidPath("coin type must be 4218' (mainnet) or 1' (testnet)"))
    ELSE Ok(Unit)

\* Bip32Path::validate
validate(p) ==
    IF Len(p) < 2
    THEN Err(InvalidPath("path must have at least 2 components"))
    ELSE IF p[1] # hardened(u32(44))
    THEN Err(InvalidPath("first component must be 44'"))
    ELSE IF p[2] # hardened(u32(4218)) /\ p[2] # hardened(u32(1))
    THEN Err(InvalidPath("coin type must be 4218' (mainnet) or 1' (testnet)"))
    ELSE IF \E i \in 1..Len(p) : ~p[i].hard
    THEN Err(InvalidPath("component must be hardened"))
    ELSE Ok(Unit)

\* Bip32Path::new
Bip32Path_new(components) ==
    IF validate(components).kind = "Err" THEN validate(components)
    ELSE Ok(components)

\* Bip32Path::iota
Bip32Path_iota(account, change, index) ==
    << hardened(u32(44)), hardened(u32(4218)), hardened(account),
       hardened(change), hardened(index) >>

\* Bip32Path::testnet
Bip32Path_testnet(account, change, index) ==
    << hardened(u32(44)), hardened(u32(1)), hardened(account),
       hardened(change), hardened(index) >>

\* A u64, kept as its four 16-bit limbs, least significant first.
u64(l0, l1, l2, l3) == << l0, l1, l2, l3 >>

\* u64::to_le_bytes
u64_to_le_bytes(v) ==
    [i \in 1..8 |-> IF i % 2 = 1 THEN v[(i + 1) \div 2] % 256
                    ELSE v[i \div 2] \div 256]

shr7_NoCarry(v) == [i \in 1..4 |-> v[i] \div 128]

\* objects.rs, line 172: `val >>= 7` on the limbs of a u64.
shr7(v) ==
    [i \in 1..4 |-> (v[i] \div 128) + (IF i < 4 THEN (v[i + 1] % 128) * 512 ELSE 0)]

\* objects::write_uleb128: the bytes pushed for val.
RECURSIVE write_uleb128(_)
write_uleb128(val) ==
    LET byte == val[1] % 128
        rest == shr7(val)
    IN  IF rest # u64(0, 0, 0, 0)
        THEN << byte + 128 >> \o write_uleb128(rest)
        ELSE << byte >>

\* u16::to_le_bytes
u16_to_le_bytes(n) == << n % 256, n \div 256 >>

\* tx::build_transfer_tx without the intent prefix.
build_transfer_tx_NoIntent(sender, recipient, amount, gas, gas_budget, gas_price) ==
    << 0, 0 >>
      \o << 2 >> \o << 0, 32 >> \o recipient
      \o << 0, 8 >> \o u64_to_le_bytes(amount)
      \o << 2 >> \o << 2, 0, 1, 1 >> \o u16_to_le_bytes(1)
      \o << 1, 1, 2 >> \o u16_to_le_bytes(0) \o << 1 >> \o u16_to_le_bytes(0)
      \o sender
      \o << 1 >> \o gas.object_id \o u64_to_le_bytes(gas.version)
      \o << 32 >> \o gas.digest
      \o sender
      \o u64_to_le_bytes(gas_price)
      \o u64_to_le_bytes(gas_budget)
      \o << 0 >>

\* tx::build_transfer_tx
build_transfer_tx(sender, recipient, amount, gas, gas_budget, gas_price) ==
    << 0, 0, 0 >>
      \o << 0 >>
      \o << 0 >>
      \o << 2 >> \o << 0, 32 >> \o recipient
      \o << 0, 8 >> \o u64_to_le_bytes(amount)
      \o << 2 >> \o << 2, 0, 1, 1 >> \o u16_to_le_bytes(1)
      \o << 1, 1, 2 >> \o u16_to_le_bytes(0) \o << 1 >> \o u16_to_le_bytes(0)
      \o sender
      \o << 1 >> \o gas.object_id \o u64_to_le_bytes(gas.version)
      \o << 32 >> \o gas.digest
      \o sender
      \o u64_to_le_bytes(gas_price)
      \o u64_to_le_bytes(gas_budget)
      \o << 0 >>

\* WriteBytesExt::write_u32::<LittleEndian> of a component.
write_u32_le(c) ==
    LET b == le32(c.low)
    IN  << b[1], b[2], b[3], b[4] + (IF c.hard THEN 128 ELSE 0) >>

\* Bip32Path::serialize: `self.0.len() as u8`, then every component.
Bip32Path_serialize(p) ==
    [i \in 1..(1 + 4 * Len(p)) |->
        IF i = 1 THEN Len(p) % 256
        ELSE write_u32_le(p[((i - 2) \div 4) + 1])[((i - 2) % 4) + 1]]

(***************************************************************************)
(* The functions of the codec, the chain builder, the status mapping and   *)
(* the path constructors, applied to inputs drawn at the start.            *)
(***************************************************************************)
VARIABLES
    fn,    \* the function applied, "none" before
    fin,   \* its input
    fout   \* what it returned; for "follow", the device's walk so far

fvars == << fn, fin, fout >>

\* The longest payload has MaxBlocks blocks and one byte; the longest list
\* of path components has MaxComponents.
MaxBlocks == 3

MaxComponents == 3

\* Payloads around every block boundary: counting bytes, and zero bytes.
PayloadLengths ==
    { 0, 1, 2 }
      \cup UNION { { k * BLOCK_DATA_SIZE - 1, k * BLOCK_DATA_SIZE,
                     k * BLOCK_DATA_SIZE + 1 } : k \in 1..MaxBlocks }

Payloads ==
    { [i \in 1..n |-> (7 * i + 3) % 256] : n \in PayloadLengths }
      \cup { Repeat(0, n) : n \in PayloadLengths }

\* Parameter lists of an operation: one, two and three parameters, one of
\* them empty, one of them twice.
ParamLists ==
    { << p >> : p \in Payloads }
      \cup { << p, PathBytes >> : p \in Payloads }
      \cup { << p, << >>, p >> : p \in Payloads }

\* Commands with data up to and beyond the limit of the length byte.
Commands ==
    [cla : { 0, 224 }, ins : { GetVersion, SignTx, Quit }, p1 : { 0, 1 },
     p2 : { 0, 2 },
     data : { Repeat(b, n) : b \in { 0, 171 },
                             n \in { 0, 1, 2, 5, APDU_MAX_DATA - 1,
                                     APDU_MAX_DATA, APDU_MAX_DATA + 1, 300 } }]

\* Raw responses of up to four bytes.
RawBytes == { 0, 1, 144, 255 }

RawResponses == UNION { [1..n -> RawBytes] : n \in 0..4 }

\* Path components: 44, 4218, 1, 0, 5 and the largest 31-bit value, plain
\* and hardened.
Components ==
    [hard : BOOLEAN, low : { 0, 1, 5, 44, 4218, 2147483647 }]

ComponentLists == UNION { [1..n -> Components] : n \in 0..MaxComponents }

Triples == [1..3 -> [hard : BOOLEAN, low : { 0, 5, 2147483647 }]]

\* Paths new accepts that are as long as a length byte can tell, and
\* longer: 44'/4218'/3'/4'/...
LongPath(n) ==
    [i \in 1..n |-> IF i = 1 THEN hardened(u32(44))
                    ELSE IF i = 2 THEN hardened(u32(4218))
                    ELSE hardened(u32(i))]

LongPaths == { LongPath(n) : n \in { 255, 256, 257 } }

\* 32-byte addresses, object ids and digests; 64-bit amounts: 0, 500,
\* 10^9 and u64::MAX.
Bytes32 == { Repeat(0, 32), Repeat(170, 32) }

U64s == { u64(0, 0, 0, 0), u64(500, 0, 0, 0), u64(51712, 15258, 0, 0),
          u64(65535, 65535, 65535, 65535) }

\* 64-bit values around the group boundaries of LEB128 and of the limbs.
UlebValues ==
    { u64(l0, l1, l2, l3) : l0 \in { 0, 1, 127, 128, 300, 16383, 16384, 65535 },
                            l1 \in { 0, 1, 65535 }, l2 \in { 0, 32768, 65535 },
                            l3 \in { 0, 1, 32768, 65535 } }

GasCoinRefs == [object_id : Bytes32, version : { u64(1, 0, 0, 0), u64(65535, 65535, 65535, 65535) },
                digest : Bytes32]

Transfers ==
    [sender : Bytes32, recipient : Bytes32, amount : U64s, gas : GasCoinRefs,
     gas_budget : { u64(19264, 76, 0, 0), u64(65535, 65535, 65535, 65535) },
     gas_price : { u64(0, 0, 0, 0), u64(750, 0, 0, 0) }]

\* Every 16-bit code.
Codes == 0..65535

Input(kind, v) == [kind |-> kind, v |-> v]

FInit ==
    /\ fn = "none"
    /\ fout = None
    /\ \/ \E p \in Payloads : fin = Input("payload", p)
       \/ \E ps \in ParamLists : fin = Input("params", ps)
       \/ \E c \in Codes : fin = Input("code", c)
       \/ \E c \in Commands : fin = Input("command", c)
       \/ \E r \in RawResponses : fin = Input("raw", r)
       \/ \E c \in ComponentLists : fin = Input("components", c)
       \/ \E t \in Triples : fin = Input("triple", t)
       \/ \E p \in LongPaths : fin = Input("components", p)
       \/ \E t \in Transfers : fin = Input("transfer", t)
       \/ \E v \in UlebValues : fin = Input("u64", v)

\* The other specifications apply none of these functions.
FIdle ==
    /\ fn = "none"
    /\ fin = None
    /\ fout = None

Applies(kind, name, value) ==
    /\ fn = "none"
    /\ fin.kind = kind
    /\ fn' = name
    /\ fout' = value
    /\ fin' = fin

BuildBlockChain == Applies("payload", "build_block_chain", build_block_chain(fin.v))

FromStatus == Applies("code", "from_status", from_status(fin.v))

Serialize ==
    Applies("command", "serialize",
            IF serialize_panics(fin.v) THEN Panicked
            ELSE Ok(ApduCommand_serialize(fin.v)))

FromRaw ==
    Applies("raw", "from_raw",
            [retcode |-> retcode(fin.v), data |-> data_of(fin.v)])

PathNew == Applies("components", "new", Bip32Path_new(fin.v))

\* build_transfer_tx called twice with the same arguments, as
\* transfer_tx_deterministic does.
BuildTransferTx ==
    LET t == fin.v
    IN  Applies("transfer", "build_transfer_tx",
                [a |-> build_transfer_tx(t.sender, t.recipient, t.amount, t.gas,
                                         t.gas_budget, t.gas_price),
                 b |-> build_transfer_tx(t.sender, t.recipient, t.amount, t.gas,
                                         t.gas_budget, t.gas_price)])

WriteUleb128 == Applies("u64", "write_uleb128", write_uleb128(fin.v))

\* serialize of a path that new returned.
PathSerialize ==
    /\ fn = "none"
    /\ fin.kind = "components"
    /\ Bip32Path_new(fin.v).kind = "Ok"
    /\ fn' = "path_serialize"
    /\ fout' = Bip32Path_serialize(Bip32Path_new(fin.v).value)
    /\ fin' = fin

PathIota ==
    Applies("triple", "iota", Bip32Path_iota(fin.v[1], fin.v[2], fin.v[3]))

PathTestnet ==
    Applies("triple", "testnet",
            Bip32Path_testnet(fin.v[1], fin.v[2], fin.v[3]))

\* protocol::execute, lines 43-55: the index and the head hashes of the
\* parameters; the device is about to ask for the first head.
IndexParams ==
    Applies("params", "follow",
            [hm |-> index_params(fin.v, 1, EmptyMap),
             heads |-> head_hashes(fin.v),
             k |-> 1,
             ask |-> head_hashes(fin.v)[1],
             got |-> << >>])

\* The device asks for fout.ask and execute answers (lines 98-111); from a
\* block the device takes the next hash, and after the last block of a
\* parameter the head of the next parameter.
DeviceFollows ==
    /\ fn = "follow"
    /\ fout.k <= Len(fout.heads)
    /\ LET reply == get_chunk_reply(fout.hm, EmptyMap, fout.ask)
           next == SubSeq(reply, 2, 1 + HASH_LEN)
           last == Len(reply) < 1 + HASH_LEN \/ next = ZeroHash
           k1 == IF last THEN fout.k + 1 ELSE fout.k
       IN  fout' = [fout EXCEPT
                      !.got = Append(@, [k |-> fout.k, ask |-> fout.ask,
                                         reply |-> reply]),
                      !.k = k1,
                      !.ask = IF ~last THEN next
                              ELSE IF k1 <= Len(fout.heads) THEN fout.heads[k1]
                              ELSE ZeroHash]
    /\ UNCHANGED << fn, fin >>

(***************************************************************************)
(* The specifications.                                                     *)
(***************************************************************************)
vars == << evars, xvars, cvars, avars, fvars >>

\* One operation over a transport whose exchange is one step.
Init ==
    /\ EInit
    /\ XInit
    /\ xkind = "hid"
    /\ CInit
    /\ AInit
    /\ FIdle

Next ==
    \/ (\E c \in Calls : Start(c)) /\ UNCHANGED << xvars, cvars, avars, fvars >>
    \/ EmptyResponse /\ UNCHANGED << xvars, cvars, avars, fvars >>
    \/ ResultFinal /\ UNCHANGED << xvars, cvars, avars, fvars >>
    \/ ResultAccumulating /\ UNCHANGED << xvars, cvars, avars, fvars >>
    \/ GetChunk /\ UNCHANGED << xvars, cvars, avars, fvars >>
    \/ PutChunk /\ UNCHANGED << xvars, cvars, avars, fvars >>
    \/ UnknownMessage /\ UNCHANGED << xvars, cvars, avars, fvars >>

Spec == Init /\ [][Next]_vars

\* One turn of the loop of execute (mod.rs, lines 69-126): the response at
\* hand is dispatched and, unless it ends the operation, the answer is
\* exchanged.
LoopTurn ==
    (EmptyResponse \/ ResultFinal \/ ResultAccumulating \/ GetChunk \/ PutChunk
       \/ UnknownMessage)
      /\ UNCHANGED << xvars, cvars, avars, fvars >>

\* execute is straight-line code around blocking exchanges: once it holds
\* a response it takes the next turn of its loop.  Every exchange returns,
\* and the device ends the operation within MaxExchanges exchanges.
SpecLive == Spec /\ WF_vars(LoopTurn)

\* The exchanges of two threads on one transport, step by step.
InitXchg == EInit /\ XInit /\ CInit /\ AInit /\ FIdle

NextXchg ==
    \/ (\E t \in Threads : \E data \in XData(t) : XCall(t, data))
         /\ UNCHANGED << evars, cvars, avars, fvars >>
    \/ (\E t \in Threads : XLock(t)) /\ UNCHANGED << evars, cvars, avars, fvars >>
    \/ (\E t \in Threads : XWrite(t)) /\ UNCHANGED << evars, cvars, avars, fvars >>
    \/ (\E t \in Threads : XIoError(t)) /\ UNCHANGED << evars, cvars, avars, fvars >>
    \/ (\E t \in Threads : XRead(t)) /\ UNCHANGED << evars, cvars, avars, fvars >>
    \/ DevAnswer /\ UNCHANGED << evars, cvars, avars, fvars >>

SpecXchg == InitXchg /\ [][NextXchg]_vars

\* exchange of two threads on one transport, step by step, against a peer
\* that answers from a script.
NextPeer ==
    \/ (\E t \in Threads : \E data \in XData(t) : XCall(t, data))
         /\ UNCHANGED << evars, cvars, avars, fvars >>
    \/ (\E t \in Threads : XLock(t)) /\ UNCHANGED << evars, cvars, avars, fvars >>
    \/ (\E t \in Threads : XWrite(t)) /\ UNCHANGED << evars, cvars, avars, fvars >>
    \/ (\E t \in Threads : XIoError(t)) /\ UNCHANGED << evars, cvars, avars, fvars >>
    \/ (\E t \in Threads : XRead(t)) /\ UNCHANGED << evars, cvars, avars, fvars >>
    \/ PeerSends /\ UNCHANGED << evars, cvars, avars, fvars >>

SpecPeer == InitXchg /\ [][NextPeer]_vars

\* The operations of two threads on one connection, one exchange a step.
NextConc ==
    \/ Start(ConcCall(cur)) /\ Runs /\ UNCHANGED << xvars, avars, fvars >>
    \/ EmptyResponse /\ Runs /\ UNCHANGED << xvars, avars, fvars >>
    \/ ResultFinal /\ Runs /\ UNCHANGED << xvars, avars, fvars >>
    \/ ResultAccumulating /\ Runs /\ UNCHANGED << xvars, avars, fvars >>
    \/ GetChunk /\ Runs /\ UNCHANGED << xvars, avars, fvars >>
    \/ PutChunk /\ Runs /\ UNCHANGED << xvars, avars, fvars >>
    \/ UnknownMessage /\ Runs /\ UNCHANGED << xvars, avars, fvars >>
    \/ (\E t \in Threads : Switch(t)) /\ UNCHANGED << xvars, avars, fvars >>

SpecConc == Init /\ [][NextConc]_vars

\* The calls of one caller on the facade, one after the other.
NextApi ==
    \/ WithTransport /\ UNCHANGED << xvars, cvars, fvars >>
    \/ New /\ UNCHANGED << xvars, cvars, fvars >>
    \/ NewProbed /\ UNCHANGED << xvars, cvars, fvars >>
    \/ (\E c \in { GetVersionCall, TestCall } : Operation(c))
         /\ UNCHANGED << xvars, cvars, fvars >>
    \/ OperationDone /\ UNCHANGED << xvars, cvars, fvars >>
    \/ CheckStatus /\ UNCHANGED << xvars, cvars, fvars >>
    \/ CheckStatusProbed /\ UNCHANGED << xvars, cvars, fvars >>
    \/ CheckStatusReprobed /\ UNCHANGED << xvars, cvars, fvars >>
    \/ Reconnect /\ UNCHANGED << xvars, cvars, fvars >>
    \/ TransportReconnect /\ UNCHANGED << xvars, cvars, fvars >>
    \/ ReconnectProbed /\ UNCHANGED << xvars, cvars, fvars >>
    \/ InOperation /\ Start(acall) /\ ApiRuns /\ UNCHANGED << xvars, cvars, fvars >>
    \/ InOperation /\ EmptyResponse /\ ApiRuns /\ UNCHANGED << xvars, cvars, fvars >>
    \/ InOperation /\ ResultFinal /\ ApiRuns /\ UNCHANGED << xvars, cvars, fvars >>
    \/ InOperation /\ ResultAccumulating /\ ApiRuns /\ UNCHANGED << xvars, cvars, fvars >>
    \/ InOperation /\ GetChunk /\ ApiRuns /\ UNCHANGED << xvars, cvars, fvars >>
    \/ InOperation /\ PutChunk /\ ApiRuns /\ UNCHANGED << xvars, cvars, fvars >>
    \/ InOperation /\ UnknownMessage /\ ApiRuns /\ UNCHANGED << xvars, cvars, fvars >>

SpecApi == Init /\ [][NextApi]_vars

\* The pure functions, each applied once to an input drawn at the start.
InitFn == EInit /\ XInit /\ CInit /\ AInit /\ FInit

NextFn ==
    \/ BuildBlockChain /\ UNCHANGED << evars, xvars, cvars, avars >>
    \/ IndexParams /\ UNCHANGED << evars, xvars, cvars, avars >>
    \/ DeviceFollows /\ UNCHANGED << evars, xvars, cvars, avars >>
    \/ FromStatus /\ UNCHANGED << evars, xvars, cvars, avars >>
    \/ Serialize /\ UNCHANGED << evars, xvars, cvars, avars >>
    \/ FromRaw /\ UNCHANGED << evars, xvars, cvars, avars >>
    \/ PathNew /\ UNCHANGED << evars, xvars, cvars, avars >>
    \/ PathSerialize /\ UNCHANGED << evars, xvars, cvars, avars >>
    \/ BuildTransferTx /\ UNCHANGED << evars, xvars, cvars, avars >>
    \/ WriteUleb128 /\ UNCHANGED << evars, xvars, cvars, avars >>
    \/ PathIota /\ UNCHANGED << evars, xvars, cvars, avars >>
    \/ PathTestnet /\ UNCHANGED << evars, xvars, cvars, avars >>

SpecFn == InitFn /\ [][NextFn]_vars

(***************************************************************************)
(* Vocabulary of the properties, over the logs sent and rcvd.              *)
(***************************************************************************)
\* The payload of the i-th response: all but the two status bytes.
Payload(i) == data_of(rcvd[i])

IsAccumulating(i) ==
    Payload(i) # << >> /\ Payload(i)[1] = DeviceMsg_ResultAccumulating

IsFinal(i) == Payload(i) # << >> /\ Payload(i)[1] = DeviceMsg_ResultFinal

\* A get-chunk message: the tag and a 32-byte hash (more bytes may follow).
IsGetChunk(i) ==
    /\ Len(Payload(i)) >= 1 + HASH_LEN
    /\ Payload(i)[1] = DeviceMsg_GetChunk

IsPutChunk(i) == Payload(i) # << >> /\ Payload(i)[1] = DeviceMsg_PutChunk

AskedHash(i) == SubSeq(Payload(i), 2, 1 + HASH_LEN)

\* A message that is none of the four: an unknown tag, or a get-chunk
\* cut short.
IsMalformed(i) ==
    /\ Payload(i) # << >>
    /\ ~IsAccumulating(i) /\ ~IsFinal(i) /\ ~IsGetChunk(i) /\ ~IsPutChunk(i)

\* execute has dispatched the i-th response: it holds a later one, or it
\* has returned.
Dispatched(i) == i < Len(rcvd) \/ pc = "done"

\* The answer the device got to its i-th message: the command after START
\* and after the answers to the messages before it.
Reply(i) == sent[i + 1]

\* The blocks of every parameter of a call, built by build_block_chain.
BlocksOf ==
    [c \in Calls |->
        UNION { { build_block_chain(c.params[k])[j]
                    : j \in 1..Len(build_block_chain(c.params[k])) }
                : k \in 1..Len(c.params) }]

\* hash_block and sha256 tabulated on the blocks and chunks of each call
\* (the properties look hashes up instead of folding them in every state).
BlockHash == [c \in Calls |-> [b \in BlocksOf[c] |-> hash_block(b)]]

ChunkHash == [c \in Calls |-> [d \in PutChunks[c] |-> sha256(d)]]

Sha256Of(d) ==
    IF d \in DOMAIN ChunkHash[call] THEN ChunkHash[call][d] ELSE sha256(d)

\* The digest model is free of collisions on what the model hashes, and
\* no digest is the all-zero tail marker or the hash nobody holds.
DigestInjective ==
    \A c \in Calls :
        LET inputs == { Block_serialize(b) : b \in BlocksOf[c] } \cup PutChunks[c]
        IN  /\ \A x, y \in inputs : sha256(x) = sha256(y) => x = y
            /\ \A x \in inputs : sha256(x) \notin { ZeroHash, UnknownHash }

(***************************************************************************)
(* C1. When the device's messages are accumulating, get-chunk and          *)
(* put-chunk messages followed by one final message, execute returns Ok    *)
(* with the payloads (the bytes after the tag) of the accumulating         *)
(* messages in arrival order followed by the payload of the final one;     *)
(* nothing of a get-chunk or put-chunk message is in the result.           *)
(***************************************************************************)
ExpectedResult ==
    concat([i \in 1..Len(rcvd) |->
               IF IsAccumulating(i) \/ IsFinal(i) THEN Tail(Payload(i))
               ELSE << >>])

WellFormedRun ==
    /\ rcvd # << >>
    /\ IsFinal(Len(rcvd))
    /\ \A i \in 1..(Len(rcvd) - 1) :
         IsAccumulating(i) \/ IsGetChunk(i) \/ IsPutChunk(i)

C1_ResultIsConcatenation ==
    /\ (pc = "done" /\ WellFormedRun) => outcome = Ok(ExpectedResult)
    /\ outcome.kind = "Ok" => (WellFormedRun /\ outcome.value = ExpectedResult)

C1_Witness ==
    /\ pc = "done"
    /\ Len(rcvd) = 3
    /\ IsAccumulating(1) /\ Tail(Payload(1)) # << >>
    /\ IsPutChunk(2) /\ Tail(Payload(2)) # << >>
    /\ IsFinal(3) /\ Tail(Payload(3)) # << >>
    /\ outcome = Ok(Tail(Payload(1)) \o Tail(Payload(3)))

(***************************************************************************)
(* C2. To a get-chunk message with hash H the engine answers with one      *)
(* command: [0x01] || successor digest || data of the block when H is the  *)
(* hash of a block built from a parameter, [0x02] when H is neither such   *)
(* a hash nor the SHA-256 of a chunk pushed before; after [0x02] the       *)
(* operation goes on: only the transport can end it at that exchange.      *)
(***************************************************************************)
PushedBefore(i) ==
    { Tail(Payload(j)) : j \in { k \in 1..(i - 1) : IsPutChunk(k) } }

C2_GetChunkReply ==
    \A i \in 1..Len(rcvd) :
        (IsGetChunk(i) /\ Dispatched(i)) =>
            /\ Len(sent) >= i + 1
            /\ \A b \in BlocksOf[call] :
                 BlockHash[call][b] = AskedHash(i) =>
                     Reply(i).data = << 1 >> \o b.next_hash \o b.data
            /\ ( /\ \A b \in BlocksOf[call] : BlockHash[call][b] # AskedHash(i)
                 /\ \A d \in PushedBefore(i) : Sha256Of(d) # AskedHash(i) )
               => /\ Reply(i).data = << 2 >>
                  /\ (i = Len(rcvd) /\ pc = "done") =>
                        (Len(sent) = i + 1 /\ outcome = Err(Transport(xerr)))

\* A block of a two-block chain served, and an unknown hash refused, after
\* which the device went on to its final message.
C2_Witness ==
    /\ pc = "done"
    /\ Len(rcvd) = 3
    /\ IsGetChunk(1)
    /\ \E b \in BlocksOf[call] :
         /\ BlockHash[call][b] = AskedHash(1)
         /\ b.next_hash # ZeroHash
         /\ Len(b.data) = BLOCK_DATA_SIZE
    /\ IsGetChunk(2) /\ AskedHash(2) = UnknownHash
    /\ Reply(2).data = << 2 >>
    /\ outcome.kind = "Ok"

(***************************************************************************)
(* C3. Put-and-recall. A chunk D the device pushes is stored under         *)
(* SHA-256(D), the hash of the raw bytes, and acknowledged with [0x03];    *)
(* every later get-chunk for SHA-256(D) in the same operation is answered  *)
(* with 0x01 followed by D as pushed, never with 0x02.                     *)
(***************************************************************************)
C3_PutAndRecall ==
    \A j \in 1..Len(rcvd) :
        (IsPutChunk(j) /\ Dispatched(j)) =>
            /\ Reply(j).data = << 3 >>
            /\ pc = "loop" =>
                 /\ Sha256Of(Tail(Payload(j))) \in DOMAIN put_store
                 /\ put_store[Sha256Of(Tail(Payload(j)))] = Tail(Payload(j))
            /\ \A i \in (j + 1)..Len(rcvd) :
                 ( /\ IsGetChunk(i) /\ Dispatched(i)
                   /\ AskedHash(i) = Sha256Of(Tail(Payload(j))) )
                 => Reply(i).data = << 1 >> \o Tail(Payload(j))

\* A chunk that is no block of a parameter was pushed, then asked back.
C3_Witness ==
    /\ Len(rcvd) = 3
    /\ IsPutChunk(1) /\ Tail(Payload(1)) = << 5, 6 >>
    /\ IsGetChunk(2) /\ AskedHash(2) = Sha256Of(<< 5, 6 >>)
    /\ AskedHash(2) \notin DOMAIN hash_map
    /\ Reply(2).data = << 1, 5, 6 >>

(***************************************************************************)
(* C4. The first command of an operation is START: its data is 0x00        *)
(* followed by one 32-byte head hash per parameter in parameter order, an  *)
(* empty parameter included; every command of the operation carries the    *)
(* operation's instruction byte, and class, p1 and p2 equal to 0.          *)
(***************************************************************************)
\* The head block of a parameter: its first 180 bytes, linked to the rest.
HeadBlockOf(c, k) ==
    CHOOSE b \in BlocksOf[c] :
        /\ b.data = Take(c.params[k], Min(BLOCK_DATA_SIZE, Len(c.params[k])))
        /\ (b.next_hash = ZeroHash) = (Len(c.params[k]) <= BLOCK_DATA_SIZE)

C4_StartCommand ==
    sent # << >> =>
        /\ Len(sent[1].data) = 1 + HASH_LEN * Len(call.params)
        /\ sent[1].data[1] = 0
        /\ \A k \in 1..Len(call.params) :
             SubSeq(sent[1].data, 2 + HASH_LEN * (k - 1), 1 + HASH_LEN * k)
               = BlockHash[call][HeadBlockOf(call, k)]
        /\ \A n \in 1..Len(sent) :
             /\ sent[n].ins = call.ins
             /\ sent[n].cla = 0 /\ sent[n].p1 = 0 /\ sent[n].p2 = 0

\* An operation whose first parameter is empty and whose second is not,
\* two commands into the exchange.
C4_Witness ==
    /\ Len(sent) >= 2
    /\ Len(call.params) = 2
    /\ call.params[1] = << >>
    /\ Len(sent[1].data) = 1 + 2 * HASH_LEN
    /\ call.ins = GetPubkey

(***************************************************************************)
(* C5. The engine alternates with the device: each accumulating, put-chunk *)
(* or get-chunk message it has dispatched got exactly one command in       *)
(* answer (0x04, 0x03, 0x01 or 0x02 in that order of kinds), as many 0x04  *)
(* acknowledgements were sent as accumulating messages received, and no    *)
(* command follows a final message.                                        *)
(***************************************************************************)
Answered ==
    { i \in 1..Len(rcvd) :
        Dispatched(i) /\ (IsAccumulating(i) \/ IsGetChunk(i) \/ IsPutChunk(i)) }

C5_Alternation ==
    /\ sent # << >> => Len(sent) = 1 + Cardinality(Answered)
    /\ Len(rcvd) <= Len(sent)
    /\ \A i \in Answered :
         /\ IsAccumulating(i) => Reply(i).data = << 4 >>
         /\ IsPutChunk(i) => Reply(i).data = << 3 >>
         /\ IsGetChunk(i) => Reply(i).data[1] \in { 1, 2 }
         /\ \A k \in 1..(i - 1) : k \in Answered
    /\ Cardinality({ n \in 2..Len(sent) : sent[n].data = << 4 >> })
         = Cardinality({ i \in Answered : IsAccumulating(i) })
    /\ \A i \in 1..Len(rcvd) :
         IsFinal(i) => (i = Len(rcvd) /\ (Dispatched(i) => Len(sent) = i))

C5_Witness ==
    /\ pc = "done"
    /\ Len(rcvd) = 3 /\ Len(sent) = 3
    /\ IsAccumulating(1) /\ IsAccumulating(2) /\ IsFinal(3)
    /\ sent[2].data = << 4 >> /\ sent[3].data = << 4 >>

(***************************************************************************)
(* C6. A response with an empty payload ends the operation with no         *)
(* further command: with the mapped error from_status(status) when the     *)
(* status word is neither 0 nor 0x9000 (0x6985 gives UserRejected), with   *)
(* a BlockProtocol error when it is 0 (a raw response shorter than two     *)
(* bytes included) or 0x9000.                                              *)
(***************************************************************************)
\* The status word of the i-th response, read off the raw bytes.
StatusOf(i) ==
    IF Len(rcvd[i]) < 2 THEN 0
    ELSE 256 * rcvd[i][Len(rcvd[i]) - 1] + rcvd[i][Len(rcvd[i])]

C6_EmptyPayload ==
    \A i \in 1..Len(rcvd) :
        Len(rcvd[i]) <= 2 =>
            /\ i = Len(rcvd)
            /\ pc = "done" =>
                 /\ Len(sent) = i
                 /\ outcome.kind = "Err"
                 /\ StatusOf(i) \notin { 0, SW_Ok } =>
                      outcome.error = from_status(StatusOf(i))
                 /\ StatusOf(i) = SW_UserRejected =>
                      outcome.error.kind = "UserRejected"
                 /\ StatusOf(i) \in { 0, SW_Ok } =>
                      outcome.error.kind = "BlockProtocol"

\* The second response is one byte long: no status word, no payload.
C6_Witness ==
    /\ pc = "done"
    /\ Len(rcvd) = 2 /\ Len(sent) = 2
    /\ Len(rcvd[2]) = 1
    /\ outcome.kind = "Err" /\ outcome.error.kind = "BlockProtocol"

(***************************************************************************)
(* C7. A message whose tag is not 0x00..0x03, or a get-chunk message of    *)
(* fewer than 33 payload bytes, ends the operation with a BlockProtocol    *)
(* error: no command answers it and the bytes accumulated so far are not   *)
(* returned.                                                               *)
(***************************************************************************)
BadTag(i) == Payload(i) # << >> /\ Payload(i)[1] \notin { 0, 1, 2, 3 }

\* The operations that return execute's error with `?`: all but quit,
\* which drops what execute returned.
Propagates == call.op # "quit"

ShortGetChunk(i) ==
    /\ Payload(i) # << >>
    /\ Payload(i)[1] = DeviceMsg_GetChunk
    /\ Len(Payload(i)) < 33

C7_MalformedMessage ==
    \A i \in 1..Len(rcvd) :
        (BadTag(i) \/ ShortGetChunk(i)) =>
            /\ i = Len(rcvd)
            /\ pc = "done" =>
                 /\ Len(sent) = i
                 /\ outcome.kind = "Err"
                 /\ outcome.error.kind = "BlockProtocol"
                 /\ Propagates => opResult = outcome
                 /\ result = << >>

\* Bytes were accumulated, then a get-chunk came with 31 bytes of hash.
C7_Witness ==
    /\ pc = "done"
    /\ Len(rcvd) = 2
    /\ IsAccumulating(1) /\ Tail(Payload(1)) # << >>
    /\ ShortGetChunk(2) /\ Len(Payload(2)) = 32
    /\ outcome = Err(BlockProtocol("GET_CHUNK response too short"))

(***************************************************************************)
(* C8. When transport.exchange fails, at START or at a later command, the  *)
(* operation returns LedgerError::Transport wrapping that error: the       *)
(* failed command is the last one handed to the transport (no retry, no    *)
(* further exchange) and no partial result is returned.                    *)
(***************************************************************************)
C8_TransportError ==
    xerr # None =>
        /\ pc = "done"
        /\ Len(sent) = Len(rcvd) + 1
        /\ outcome = [kind |-> "Err",
                      error |-> [kind |-> "Transport", err |-> xerr]]
        /\ Propagates => opResult = outcome
        /\ result = << >>

\* The third exchange failed after bytes had been accumulated.
C8_Witness ==
    /\ xerr = [kind |-> "Timeout", ms |-> 30000]
    /\ Len(sent) = 3 /\ Len(rcvd) = 2
    /\ IsAccumulating(1) /\ Tail(Payload(1)) # << >>
    /\ outcome.kind = "Err"

(***************************************************************************)
(* C9 as stated. Every non-success status word the device returns during   *)
(* an operation is converted to its mapped error before the caller sees    *)
(* an outcome: an operation never reports success when a response carried  *)
(* a status word that is neither 0 nor 0x9000.                             *)
(***************************************************************************)
C9_AsStated ==
    (pc = "done" /\ call.op # "quit") =>
        \A i \in 1..Len(rcvd) :
            StatusOf(i) \notin { 0, SW_Ok } => opResult.kind = "Err"

(***************************************************************************)
(* C9 as amended. A non-success status word is converted to its mapped     *)
(* error only when it comes with an empty payload; the status word of a    *)
(* response with a payload is not looked at, so an operation reports       *)
(* success exactly when its last response is a final message (whatever     *)
(* its status word) that the operation's parser accepts, and never from    *)
(* a response with an empty payload.  (quit has no parser and drops the    *)
(* outcome of the protocol: it is not an operation of this statement.)     *)
(***************************************************************************)
\* The operation's parser accepts a result: 64 bytes for sign-tx, 4 for
\* get-version, 66 with both length bytes 32 for get-pubkey and
\* verify-address, anything for a bare execute.
Accepted(res) ==
    IF call.op \in { "sign_tx", "sign_message" } THEN Len(res) >= 64
    ELSE IF call.op \in { "get_pubkey", "verify_address" }
    THEN Len(res) >= 66 /\ res[1] = 32 /\ res[34] = 32
    ELSE IF call.op = "get_version" THEN Len(res) >= 4
    ELSE TRUE

C9_StatusOnlyWithEmptyPayload ==
    (pc = "done" /\ call.op # "quit") =>
        /\ ( /\ rcvd # << >>
             /\ Len(sent) = Len(rcvd)
             /\ Payload(Len(rcvd)) = << >>
             /\ StatusOf(Len(rcvd)) \notin { 0, SW_Ok } )
           => /\ opResult.kind = "Err"
              /\ StatusOf(Len(rcvd)) = SW_UserRejected =>
                   opResult.error = [kind |-> "UserRejected"]
              /\ StatusOf(Len(rcvd)) = SW_DeviceLocked =>
                   opResult.error = [kind |-> "DeviceLocked"]
              /\ StatusOf(Len(rcvd)) = 4660 =>
                   opResult.error = [kind |-> "DeviceStatus", code |-> 4660,
                                     tag |-> "unknown"]
        /\ opResult.kind = "Ok" <=>
             (WellFormedRun /\ Accepted(ExpectedResult))

\* sign-tx returned a signature from a final message whose status word is
\* 0x6985, after an accumulating message with that status word.
C9_Witness ==
    /\ pc = "done"
    /\ call.op = "sign_tx"
    /\ Len(rcvd) = 2
    /\ IsAccumulating(1) /\ StatusOf(1) = SW_UserRejected
    /\ IsFinal(2) /\ StatusOf(2) = SW_UserRejected
    /\ opResult.kind = "Ok" /\ Len(opResult.value) = 64

(***************************************************************************)
(* Vocabulary of the properties of exchange.                               *)
(***************************************************************************)
\* Thread t is between its first write to the handle and its return.
IoSection(t) == tpc[t] \in { "write", "read" }

\* The guard is held by exactly the thread that is inside its exchange.
GuardHeld ==
    /\ \A t \in Threads : IoSection(t) => owner = t
    /\ owner # 0 => IoSection(owner)

\* The calls of one exchange on the handle are consecutive: no call of the
\* other thread falls between two of them.
NoInterleaving ==
    \A i, j, k \in DOMAIN iolog :
        (i < j /\ j < k /\ iolog[i] = iolog[k]) => iolog[j] = iolog[i]

\* What exchange returned to t, if Ok, is the device's answer to t's command.
OwnResponse(t) ==
    tret[t].kind = "Ok" =>
        tret[t].value = DevResponse(ApduCommand_serialize(tcmd[t]))

\* No exchange has returned an error from inside the guarded section (the
\* error of a poisoned lock comes before it).
NoExchangeFailed ==
    \A u \in Threads :
        tret[u].kind = "Err" => tret[u].error = PoisonError

C11_AsStated ==
    \A i, j, k \in DOMAIN wire :
        (i < j /\ j < k /\ wire[i].t = wire[k].t) => wire[j].t = wire[i].t

(***************************************************************************)
(* C12. The block index and the put-store are created empty at the start   *)
(* of each operation and discarded when it returns: outside an operation   *)
(* both are empty, inside one they hold the blocks of its own parameters   *)
(* and the chunks pushed in it and nothing else, and a get-chunk for a     *)
(* hash that only an earlier operation of the connection held (a chunk     *)
(* pushed in it, a block of one of its parameters) is answered [0x02].     *)
(***************************************************************************)
HeldInThisOperation(i) ==
    \/ \E b \in BlocksOf[call] : BlockHash[call][b] = AskedHash(i)
    \/ \E d \in PushedBefore(i) : Sha256Of(d) = AskedHash(i)

C12_StoresPerOperation ==
    /\ pc \in { "idle", "done" } => (hash_map = EmptyMap /\ put_store = EmptyMap)
    /\ pc = "loop" =>
         /\ DOMAIN hash_map = { BlockHash[call][b] : b \in BlocksOf[call] }
         /\ DOMAIN put_store
              = { Sha256Of(d) : d \in PushedBefore(Len(rcvd)) }
    /\ \A i \in 1..Len(rcvd) :
         ( /\ IsGetChunk(i) /\ Dispatched(i)
           /\ AskedHash(i) \in held
           /\ ~HeldInThisOperation(i) )
         => Reply(i).data = << HostMsg_GetChunkResponseFailure >>

\* The second operation of a connection is asked for a chunk pushed in the
\* first and for a block of the first's parameter, and refuses both.
C12_Witness ==
    /\ ncalls = 2 /\ apc = "op"
    /\ call = GetVersionCall
    /\ Len(sent) >= 3
    /\ IsGetChunk(1) /\ AskedHash(1) = Sha256Of(<< 5, 6 >>)
    /\ IsGetChunk(2) /\ AskedHash(2) = TestBlockHash
    /\ { AskedHash(1), AskedHash(2) } \subseteq held
    /\ Reply(1).data = << HostMsg_GetChunkResponseFailure >>
    /\ Reply(2).data = << HostMsg_GetChunkResponseFailure >>

(***************************************************************************)
(* Vocabulary of the facade's properties, over alog and aret.              *)
(***************************************************************************)
\* The names of VersionResults that contain "iota" in some case, and the
\* one that does not.
IotaNames == { Name_iota, Name_IOTA, Name_MyIota }

OtherNames == { Name_BTC }

\* The results of the probes of the call, in order.
Probes == SelectSeq(alog, LAMBDA e : e.ev = "probe")

Reconnects == SelectSeq(alog, LAMBDA e : e.ev = "reconnect")

IsTransportError(r) == r.kind = "Err" /\ r.error.kind = "Transport"

UnlistedErrors ==
    { "UserRejected", "BlindSigningDisabled", "DeviceStatus",
      "InvalidResponse", "BlockProtocol" }

\* The status the classification gives a probe's result r, where an error
\* that is not listed gives `other`.
Classified(r, status, other) ==
    /\ (r.kind = "Ok" /\ r.value.name \in IotaNames) => status = Connected
    /\ (r.kind = "Ok" /\ r.value.name \in OtherNames)
         => status = WrongAppStatus(r.value.name)
    /\ (r.kind = "Err" /\ r.error.kind = "DeviceLocked") => status = Locked
    /\ (r.kind = "Err" /\ r.error.kind = "AppNotOpen") => status = AppClosed
    /\ (r.kind = "Err" /\ r.error.kind = "WrongApp")
         => status = WrongAppStatus(r.error.name)
    /\ (r.kind = "Err" /\ r.error.kind \in UnlistedErrors) => status = other

IsStatus(v) ==
    "st" \in DOMAIN v
      /\ v.st \in { "Connected", "Locked", "AppClosed", "WrongApp",
                    "Disconnected" }

CheckStatusReturned == afn = "check_status" /\ apc = "ret"

(***************************************************************************)
(* C13, as stated. check_status classifies the outcome of a get-version    *)
(* probe it makes: a name containing "iota" in any case gives Connected,   *)
(* another name WrongApp(name), DeviceLocked gives Locked, AppNotOpen      *)
(* AppClosed, WrongApp(name) WrongApp(name), and every other error that    *)
(* is no transport error gives Disconnected.                               *)
(***************************************************************************)
C13_AsStated ==
    CheckStatusReturned =>
        /\ IsStatus(aret)
        /\ \A i \in 1..Len(Probes) :
             (i = Len(Probes) /\ ~IsTransportError(Probes[i].res))
               => Classified(Probes[i].res, aret, Disconnected)

(***************************************************************************)
(* C13, amended. The classification above is that of the first probe; the  *)
(* probe made after a successful reconnect is classified the same way but  *)
(* for the errors not listed and the transport error, which give Locked.   *)
(* check_status returns a status in every case.                            *)
(***************************************************************************)
C13_FirstProbeClassification ==
    CheckStatusReturned =>
        /\ IsStatus(aret)
        /\ (Len(Probes) = 1 /\ ~IsTransportError(Probes[1].res))
             => Classified(Probes[1].res, aret, Disconnected)
        /\ Len(Probes) = 2 =>
             /\ Classified(Probes[2].res, aret, Locked)
             /\ IsTransportError(Probes[2].res) => aret = Locked

\* The first probe failed in the transport, the reconnect succeeded, and
\* the probe after it was rejected: Locked.
C13_Witness ==
    /\ CheckStatusReturned
    /\ Len(Probes) = 2
    /\ Probes[2].res.kind = "Err"
    /\ Probes[2].res.error.kind = "UserRejected"
    /\ aret = Locked

(***************************************************************************)
(* C14. When the first probe of check_status fails with a transport error: *)
(* a device that is not present gives Disconnected with no reconnect; a    *)
(* device that is present gives exactly one transport reconnect; a failed  *)
(* reconnect gives Locked; a successful one is followed by exactly one     *)
(* more probe, whose classification is returned. A call of check_status    *)
(* makes at most two get-version operations and at most one reconnect.     *)
(***************************************************************************)
\* The get-version operations of the call: those that have returned and
\* the one running.
ProbesMade == Len(Probes) + (IF InOperation /\ pc # "idle" THEN 1 ELSE 0)

Presence == SelectSeq(alog, LAMBDA e : e.ev = "present")

C14_TransportErrorPath ==
    afn = "check_status" =>
        /\ ProbesMade <= 2
        /\ Len(Reconnects) <= 1
        /\ (Probes # << >> /\ ~IsTransportError(Probes[1].res))
             => (Reconnects = << >> /\ ProbesMade = 1)
        /\ (apc = "ret" /\ IsTransportError(Probes[1].res)) =>
             /\ Len(Presence) = 1
             /\ Presence[1].res = "FALSE" =>
                  (aret = Disconnected /\ Reconnects = << >> /\ ProbesMade = 1)
             /\ Presence[1].res = "TRUE" =>
                  /\ Len(Reconnects) = 1
                  /\ Reconnects[1].res = "Err" =>
                       (aret = Locked /\ ProbesMade = 1)
                  /\ Reconnects[1].res = "Ok" =>
                       /\ ProbesMade = 2
                       /\ Classified(Probes[2].res, aret, Locked)
                       /\ IsTransportError(Probes[2].res) => aret = Locked

\* A transport error, a device present, a reconnect, and a second probe
\* that finds the application.
C14_Witness ==
    /\ CheckStatusReturned
    /\ IsTransportError(Probes[1].res)
    /\ Presence[1].res = "TRUE"
    /\ Len(Reconnects) = 1 /\ Reconnects[1].res = "Ok"
    /\ Len(Probes) = 2 /\ Probes[2].res.kind = "Ok"
    /\ aret = Connected

(***************************************************************************)
(* C15. LedgerIota::new returns a connection only if the transport opened, *)
(* get-version succeeded, the name contains "iota" in some case and the    *)
(* version is at least (0, 9, 0) in lexicographic order: (0, 8, 255) is    *)
(* refused, (0, 10, 0) and (1, 0, 0) are accepted. The name is checked     *)
(* first: another name gives WrongApp(name) whatever the version, an iota  *)
(* name below the floor gives InvalidResponse. No failure leaves a         *)
(* connection object.                                                      *)
(***************************************************************************)
VersionOf(v) == << v.major, v.minor, v.patch >>

AtLeastFloor == { << 0, 9, 0 >>, << 0, 10, 0 >>, << 1, 0, 0 >> }

BelowFloor == { << 0, 8, 255 >> }

NewReturned == afn = "new" /\ apc = "ret"

C15_ConnectSequence ==
    /\ afn = "new" => (conn = "open" <=> (apc = "ret" /\ aret.kind = "Ok"))
    /\ NewReturned =>
         /\ aret.kind \in { "Ok", "Err" }
         /\ alog[1].ev = "open"
         /\ alog[1].res = "Err" =>
              (aret.kind = "Err" /\ aret.error.kind = "Transport"
                 /\ Probes = << >>)
         /\ alog[1].res = "Ok" =>
              /\ Len(Probes) = 1
              /\ Probes[1].res.kind = "Err" => aret = Probes[1].res
              /\ Probes[1].res.kind = "Ok" =>
                   LET v == Probes[1].res.value
                   IN  /\ v.name \in OtherNames => aret = Err(WrongApp(v.name))
                       /\ (v.name \in IotaNames /\ VersionOf(v) \in BelowFloor)
                            => (aret.kind = "Err"
                                  /\ aret.error.kind = "InvalidResponse")
                       /\ (v.name \in IotaNames /\ VersionOf(v) \in AtLeastFloor)
                            => aret.kind = "Ok"
                       /\ VersionOf(v) \in AtLeastFloor \cup BelowFloor
                       /\ v.name \in IotaNames \cup OtherNames

\* new returns the connection of an application "My Iota" of version
\* 1.0.0, whose minor and patch numbers are below those of the floor.
C15_Witness ==
    /\ NewReturned
    /\ conn = "open"
    /\ aret.kind = "Ok"
    /\ VersionOf(Probes[1].res.value) = << 1, 0, 0 >>
    /\ Probes[1].res.value.name = Name_MyIota

ReconnectReturned == afn = "reconnect" /\ apc = "ret"

C17_FacadeReconnect ==
    afn = "reconnect" =>
        /\ ProbesMade <= 1
        /\ Len(Reconnects) <= 1
        /\ (ProbesMade = 1 \/ sent # << >>) =>
             (Len(Reconnects) = 1 /\ Reconnects[1].res = "Ok"
                /\ alog[1].ev = "reconnect")
        /\ apc = "ret" =>
             /\ Len(Reconnects) = 1
             /\ Reconnects[1].res = "Err" =>
                  (aret = Err(Transport(Reconnects[1].err)) /\ Probes = << >>)
             /\ Reconnects[1].res = "Ok" =>
                  /\ Len(Probes) = 1
                  /\ Probes[1].res.kind = "Err" => aret = Probes[1].res
                  /\ (Probes[1].res.kind = "Ok"
                        /\ Probes[1].res.value.name \in OtherNames)
                       => aret = Err(WrongApp(Probes[1].res.value.name))
             /\ aret.kind = "Ok" <=>
                  /\ Reconnects[1].res = "Ok"
                  /\ Len(Probes) = 1
                  /\ Probes[1].res.kind = "Ok"
                  /\ Probes[1].res.value.name \in IotaNames

\* reconnect returns Ok on an application "iota" of version 0.8.255: it
\* validates the name, not the version.
C17_Witness ==
    /\ ReconnectReturned
    /\ aret.kind = "Ok"
    /\ Reconnects[1].res = "Ok"
    /\ Probes[1].res.value.name = Name_iota
    /\ VersionOf(Probes[1].res.value) = << 0, 8, 255 >>

(***************************************************************************)
(* C18, as stated. On both transports an exchange whose read finds no      *)
(* response data within the deadline of 30 s returns the typed error       *)
(* Timeout(30000) and has released the guard, which the next exchange can  *)
(* take.                                                                   *)
(***************************************************************************)
\* The exchange of thread t ended because a read ran into its deadline.
ReadTimedOut(t) ==
    /\ tpc[t] = "done"
    /\ tret[t].kind = "Err"
    /\ \/ tret[t].error = [kind |-> "Timeout", ms |-> LEDGER_TIMEOUT_MS]
       \/ tret[t].error = [kind |-> "Io", msg |-> "timed out"]

C18_AsStated ==
    \A t \in Threads :
        ReadTimedOut(t) =>
            /\ tret[t] = Err([kind |-> "Timeout", ms |-> LEDGER_TIMEOUT_MS])
            /\ owner # t
            /\ ~poisoned

(***************************************************************************)
(* C19. A panic of a thread that holds the exchange guard poisons it, and  *)
(* every exchange that comes to the guard afterwards returns the           *)
(* communication error without writing to or reading from the device.      *)
(* As stated, the panic of an exchange (the serialization of a command     *)
(* with more than 255 data bytes) is inside the guarded section on both    *)
(* transports; amended, it is so on the HID transport, while the TCP       *)
(* transport serializes before it takes the guard and its panic poisons    *)
(* nothing.                                                                *)
(***************************************************************************)
DidIo(t) == \E i \in DOMAIN iolog : iolog[i] = t

\* What holds of the poisoned guard on either transport.
PoisonedGuardFails ==
    /\ poisoned =>
         /\ owner = 0
         /\ \A t \in Threads : tpc[t] \notin { "write", "read" }
         /\ \E t \in Threads : tret[t] = Panicked
    /\ \A t \in Threads :
         /\ tret[t] = Err(PoisonError) => (poisoned /\ ~DidIo(t))
         /\ (poisoned /\ tpc[t] = "done" /\ ~DidIo(t))
              => tret[t] \in { Panicked, Err(PoisonError) }
         /\ tret[t] = Panicked => (serialize_panics(tcmd[t]) /\ ~DidIo(t))

C19_AsStated ==
    /\ PoisonedGuardFails
    /\ \A t \in Threads : tret[t] = Panicked => poisoned

C19_PanicUnderGuard ==
    /\ PoisonedGuardFails
    /\ \A t \in Threads :
         tret[t] = Panicked => (poisoned <=> xkind = "hid")

\* On the HID transport one thread panicked serializing under the guard
\* and the other thread's exchange, made afterwards, failed without I/O.
C19_Witness ==
    /\ xkind = "hid"
    /\ poisoned
    /\ tret[1] = Panicked
    /\ tpc[2] = "done"
    /\ tret[2] = Err(PoisonError)
    /\ iolog = << >>

(***************************************************************************)
(* C20. sign-tx runs the block protocol with instruction 0x03 on the       *)
(* parameters [u32 little-endian length of tx || tx], [serialized path]    *)
(* and, only when objects are supplied, [encoded object list], in this     *)
(* order, so that START carries 2 or 3 head hashes. It returns the first   *)
(* 64 bytes of the final result as the signature when the result has at    *)
(* least 64 bytes, and InvalidResponse when it has fewer.                  *)
(***************************************************************************)
\* The hash of the first block of a parameter of the running call.
HeadHashOf(p) ==
    LET b == CHOOSE x \in BlocksOf[call] :
                 /\ x.data = Take(p, Min(BLOCK_DATA_SIZE, Len(p)))
                 /\ (x.next_hash = ZeroHash) = (Len(p) <= BLOCK_DATA_SIZE)
    IN  BlockHash[call][b]

\* The parameters sign-tx is to pass for Tx200, the path and the objects.
SignTxExpected ==
    << << 200, 0, 0, 0 >> \o Tx200, PathBytes >>
      \o (IF call.objects = None THEN << >> ELSE << ObjBytes >>)

C20_SignTx ==
    (call # None /\ call.op = "sign_tx") =>
        /\ call.params = SignTxExpected
        /\ Len(call.params) = (IF call.objects = None THEN 2 ELSE 3)
        /\ sent # << >> =>
             /\ \A n \in 1..Len(sent) : sent[n].ins = 3
             /\ sent[1].data
                  = << 0 >> \o concat([k \in 1..Len(SignTxExpected) |->
                                          HeadHashOf(SignTxExpected[k])])
        /\ (pc = "done" /\ outcome.kind = "Ok") =>
             /\ Len(outcome.value) >= 64
                  => opResult = Ok(SubSeq(outcome.value, 1, 64))
             /\ Len(outcome.value) < 64 =>
                  (opResult.kind = "Err"
                     /\ opResult.error.kind = "InvalidResponse")
        /\ (pc = "done" /\ outcome.kind # "Ok") => opResult = outcome

\* sign-tx with objects: START carried three hashes and the result of 66
\* bytes gave its first 64 as the signature.
C20_Witness ==
    /\ pc = "done"
    /\ call.op = "sign_tx"
    /\ call.objects # None
    /\ Len(sent[1].data) = 1 + 3 * HASH_LEN
    /\ outcome.kind = "Ok"
    /\ Len(outcome.value) = 66
    /\ opResult = Ok(SubSeq(outcome.value, 1, 64))

(***************************************************************************)
(* C21: sign_message(m, path) does what sign_tx([3,0,0] || m, path, no     *)
(* objects) does: two parameters, the first being u32 LE (|m| + 3)         *)
(* followed by 3, 0, 0 and m; the same index and head hashes and so the    *)
(* same START and the same replies to the device; every command with       *)
(* instruction 0x03; and the result or error sign_tx returns.              *)
(***************************************************************************)
\* What sign_tx passes to execute for the transaction 3, 0, 0, "hi".
SignTxOfIntent ==
    sign_tx_params(<< 3, 0, 0, 104, 105 >>, PathBytes, None)

IndexOfIntent == index_params(SignTxOfIntent, 1, EmptyMap)

HeadsOfIntent == head_hashes(SignTxOfIntent)

C21_SignMessage ==
    (call # None /\ call.op = "sign_message") =>
        /\ call.params = << << 5, 0, 0, 0, 3, 0, 0, 104, 105 >>, PathBytes >>
        /\ call.params = SignTxOfIntent
        /\ sent # << >> =>
             /\ \A n \in 1..Len(sent) : sent[n].ins = 3
             /\ sent[1].data = << 0 >> \o concat(HeadsOfIntent)
        /\ pc = "loop" =>
             /\ hash_map = IndexOfIntent
             /\ first_hashes = HeadsOfIntent
        /\ \A n \in 2..Len(sent) :
             (IsGetChunk(n - 1) /\ AskedHash(n - 1) \in DOMAIN IndexOfIntent)
               => sent[n].data
                    = << 1 >> \o Block_serialize(IndexOfIntent[AskedHash(n - 1)])
        /\ pc = "done" => opResult = op_result("sign_tx", outcome)

\* sign_message returned the 64 bytes of a final message as the signature,
\* after serving the block of its first parameter to the device.
C21_Witness ==
    /\ pc = "done"
    /\ call.op = "sign_message"
    /\ Len(rcvd) = 2
    /\ IsGetChunk(1)
    /\ sent[2].data = << 1 >> \o ZeroHash \o << 5, 0, 0, 0, 3, 0, 0, 104, 105 >>
    /\ opResult = Ok(Signature64)

(***************************************************************************)
(* C22: get-pubkey and verify-address pass the serialized path as the      *)
(* only parameter, under instructions 0x02 and 0x01, and give the result   *)
(* to one parser: a result of at least 66 bytes whose bytes 0 and 33 are   *)
(* 32 yields (result[1..33], result[34..66]), every other result yields    *)
(* InvalidResponse, and no result makes the parser read past its end.      *)
(***************************************************************************)
IsPubkeyOp == call # None /\ call.op \in { "get_pubkey", "verify_address" }

C22_PubkeyOps ==
    IsPubkeyOp =>
        /\ call.params = << PathBytes >>
        /\ \A n \in 1..Len(sent) :
             sent[n].ins = (IF call.op = "get_pubkey" THEN 2 ELSE 1)
        /\ sent # << >> =>
             sent[1].data = << 0 >> \o sha256(ZeroHash \o PathBytes)
        /\ (pc = "done" /\ outcome.kind = "Ok") =>
             LET r == outcome.value
             IN  IF Len(r) >= 66 /\ r[1] = 32 /\ r[34] = 32
                 THEN opResult = Ok([pubkey |-> SubSeq(r, 2, 33),
                                     address |-> SubSeq(r, 35, 66)])
                 ELSE /\ opResult.kind = "Err"
                      /\ opResult.error.kind = "InvalidResponse"
        /\ (pc = "done" /\ outcome.kind # "Ok") => opResult = outcome

\* verify-address returned key and address from a result of 67 bytes.
C22_Witness ==
    /\ pc = "done"
    /\ call.op = "verify_address"
    /\ sent[1].ins = 1
    /\ outcome.kind = "Ok"
    /\ Len(outcome.value) = 67
    /\ opResult = Ok([pubkey |-> Repeat(170, 32),
                      address |-> Repeat(187, 32)])

(***************************************************************************)
(* C23: get-version runs the block protocol with instruction 0x00 and no   *)
(* parameter, so START carries the single byte 0x00; a result shorter than *)
(* 4 bytes yields InvalidResponse, otherwise bytes 0, 1, 2 are major,      *)
(* minor, patch and the name is the lossy UTF-8 decoding of the remaining  *)
(* bytes: those bytes where they are well-formed UTF-8, U+FFFD in place of *)
(* every ill-formed sequence.  As stated (the name is the remaining        *)
(* bytes) it fails for a name that is not well-formed UTF-8.               *)
(***************************************************************************)
\* The number of bytes below 128 that s begins with.
RECURSIVE AsciiPrefix(_)
AsciiPrefix(s) ==
    IF s = << >> \/ Head(s) >= 128 THEN 0 ELSE 1 + AsciiPrefix(Tail(s))

\* The names the device of the model reports, decoded by hand.  Such a
\* name is an ASCII prefix, a core without ASCII and an ASCII suffix; the
\* ASCII bytes are kept, and the core is one of: FF FE and FF (never part
\* of UTF-8), C3 A9 (well-formed), E2 82 and F0 9F 98 (cut short: one
\* U+FFFD), ED A0 80 (a surrogate: three U+FFFD), or bytes C8..CE (the
\* bytes of Signature64), each of which opens a two-byte sequence that
\* its successor does not continue.
ExpectedName(bytes) ==
    LET k == AsciiPrefix(bytes)
        j == AsciiPrefix(Reverse(SubSeq(bytes, k + 1, Len(bytes))))
        core == SubSeq(bytes, k + 1, Len(bytes) - j)
        U == << 239, 191, 189 >>
    IN  SubSeq(bytes, 1, k)
          \o (IF core = << >> THEN << >>
              ELSE IF core = << 255, 254 >> THEN U \o U
              ELSE IF core = << 255 >> THEN U
              ELSE IF core = << 195, 169 >> THEN << 195, 169 >>
              ELSE IF core = << 226, 130 >> THEN U
              ELSE IF core = << 240, 159, 152 >> THEN U
              ELSE IF core = << 237, 160, 128 >> THEN U \o U \o U
              ELSE IF \A i \in 1..Len(core) : core[i] >= 200 /\ core[i] <= 206
              THEN concat([i \in 1..Len(core) |-> U])
              ELSE << >>)
          \o SubSeq(bytes, Len(bytes) - j + 1, Len(bytes))

GetVersionSends ==
    /\ call.params = << >>
    /\ \A n \in 1..Len(sent) : sent[n].ins = 0
    /\ sent # << >> => sent[1].data = << 0 >>

GetVersionParses(name_of(_)) ==
    /\ (pc = "done" /\ outcome.kind = "Ok") =>
         LET r == outcome.value
         IN  IF Len(r) < 4
             THEN /\ opResult.kind = "Err"
                  /\ opResult.error.kind = "InvalidResponse"
             ELSE opResult = Ok([major |-> r[1], minor |-> r[2],
                                 patch |-> r[3],
                                 name |-> name_of(SubSeq(r, 4, Len(r)))])
    /\ (pc = "done" /\ outcome.kind # "Ok") => opResult = outcome

C23_AsStated ==
    (call # None /\ call.op = "get_version") =>
        GetVersionSends /\ GetVersionParses(LAMBDA b : b)

C23_GetVersion ==
    (call # None /\ call.op = "get_version") =>
        GetVersionSends /\ GetVersionParses(ExpectedName)

\* get-version returned a name of two U+FFFD for the name bytes FF FE.
C23_Witness ==
    /\ pc = "done"
    /\ call.op = "get_version"
    /\ sent[1].data = << 0 >>
    /\ outcome = Ok(<< 1, 0, 0, 255, 254 >>)
    /\ opResult.kind = "Ok"
    /\ opResult.value.name = << 239, 191, 189, 239, 191, 189 >>

(***************************************************************************)
(* C24: quit sends a START with instruction 0xFF and no parameter and      *)
(* returns Ok(()) whatever the block protocol returned: a transport error, *)
(* a mapped status error, a block-protocol error and a final result are    *)
(* all dropped; the operation is one run of the protocol, with no command  *)
(* after the run has ended.                                                *)
(***************************************************************************)
C24_Quit ==
    (call # None /\ call.op = "quit") =>
        /\ call.params = << >>
        /\ \A n \in 1..Len(sent) : sent[n].ins = 255
        /\ sent # << >> => sent[1].data = << 0 >>
        /\ (pc = "done" /\ outcome.kind \in { "Ok", "Err" }) =>
             opResult = Ok(<< >>)
        /\ pc = "done" =>
             /\ Len(sent) \in { Len(rcvd), Len(rcvd) + 1 }
             /\ Len(sent) = Len(rcvd) + 1 => outcome.kind # "Ok"
             /\ \A n \in 2..Len(sent) : sent[n].data[1] # HostMsg_Start

\* quit returned Ok(()) although the device answered START with the
\* status word 0x6985 and no payload.
C24_Witness ==
    /\ pc = "done"
    /\ call.op = "quit"
    /\ Len(sent) = 1
    /\ rcvd = << SwBytes(SW_UserRejected) >>
    /\ outcome = Err([kind |-> "UserRejected"])
    /\ opResult = Ok(<< >>)

(***************************************************************************)
(* C25: for a byte string P, the data of the blocks build_block_chain(P)   *)
(* returns, concatenated in order, are P; each block has at most 180       *)
(* bytes of data and every block but the last exactly 180; there are       *)
(* ceil(|P| / 180) blocks for a non-empty P and one block with no data for *)
(* the empty P.                                                            *)
(***************************************************************************)
C25_ChainData ==
    fn = "build_block_chain" =>
        LET P == fin.v
            bs == fout
        IN  /\ concat([i \in 1..Len(bs) |-> bs[i].data]) = P
            /\ \A i \in 1..Len(bs) :
                 /\ Len(bs[i].data) <= 180
                 /\ i < Len(bs) => Len(bs[i].data) = 180
            /\ P # << >> => Len(bs) = (Len(P) + 179) \div 180
            /\ P = << >> => Len(bs) = 1 /\ bs[1].data = << >>

\* A payload of 361 bytes gave blocks of 180, 180 and 1 bytes.
C25_Witness ==
    /\ fn = "build_block_chain"
    /\ Len(fin.v) = 361
    /\ Len(fout) = 3
    /\ Len(fout[1].data) = 180
    /\ Len(fout[2].data) = 180
    /\ Len(fout[3].data) = 1

(***************************************************************************)
(* C26: in the chain build_block_chain returns the last block's next_hash  *)
(* is 32 zero bytes and each other block's next_hash is the SHA-256 of     *)
(* the next block's serialized form (next_hash || data); so a device that  *)
(* starts at the head hash START announced for a parameter and asks for    *)
(* each next_hash in turn is answered with success every time and obtains  *)
(* the blocks of the parameter, all of them and in order.                  *)
(***************************************************************************)
\* The replies the device got while it followed parameter k.
RepliesFor(k) ==
    LET g == SelectSeq(fout.got, LAMBDA e : e.k = k)
    IN  [i \in 1..Len(g) |-> g[i].reply]

C26_ChainLinks ==
    /\ fn = "build_block_chain" =>
         /\ fout[Len(fout)].next_hash = Repeat(0, 32)
         /\ \A i \in 1..(Len(fout) - 1) :
              fout[i].next_hash
                = sha256(fout[i + 1].next_hash \o fout[i + 1].data)
    /\ fn = "follow" =>
         /\ Len(fout.heads) = Len(fin.v)
         /\ \A i \in 1..Len(fout.got) : fout.got[i].reply[1] = 1
         /\ \A k \in 1..Len(fin.v) :
              k < fout.k =>
                LET rs == RepliesFor(k)
                    P == fin.v[k]
                IN  /\ Len(rs) = (IF P = << >> THEN 1
                                  ELSE (Len(P) + 179) \div 180)
                    /\ \A i \in 1..Len(rs) : Len(rs[i]) >= 33
                    /\ concat([i \in 1..Len(rs) |->
                                 SubSeq(rs[i], 34, Len(rs[i]))]) = P
                    /\ rs = [i \in 1..Len(rs) |->
                               << 1 >> \o build_block_chain(P)[i].next_hash
                                 \o build_block_chain(P)[i].data]

\* The device followed three parameters, the first and the third of 541
\* bytes and the second empty, and got 4, 1 and 4 blocks.
C26_Witness ==
    /\ fn = "follow"
    /\ Len(fin.v) = 3
    /\ Len(fin.v[1]) = 541
    /\ fout.k = 4
    /\ Len(fout.got) = 9
    /\ Len(RepliesFor(2)) = 1

(***************************************************************************)
(* C27: from_status gives a value for each of the 65,536 codes, the same   *)
(* each time: DeviceLocked for 0x5515, BlindSigningDisabled for 0x6808,    *)
(* DeviceStatus(0x6982, "nothing received") for 0x6982, UserRejected for   *)
(* 0x6985 and for 0x6D00, WrongApp("unknown") for 0x6E00, AppNotOpen for   *)
(* 0x6E01, and DeviceStatus(c, "unknown") for every other code c.          *)
(***************************************************************************)
C27_FromStatus ==
    fn = "from_status" =>
        LET c == fin.v
        IN  /\ c \in 0..65535
            /\ c = 21781 => fout = [kind |-> "DeviceLocked"]
            /\ c = 26632 => fout = [kind |-> "BlindSigningDisabled"]
            /\ c = 27010 => fout = [kind |-> "DeviceStatus", code |-> 27010,
                                    tag |-> "nothing received"]
            /\ c \in { 27013, 27904 } => fout = [kind |-> "UserRejected"]
            /\ c = 28160 => fout = [kind |-> "WrongApp",
                                    name |-> << 117, 110, 107, 110, 111, 119,
                                                110 >>]
            /\ c = 28161 => fout = [kind |-> "AppNotOpen"]
            /\ c \notin { 21781, 26632, 27010, 27013, 27904, 28160, 28161 }
                 => fout = [kind |-> "DeviceStatus", code |-> c,
                            tag |-> "unknown"]

\* 0x6D00 gave UserRejected.
C27_Witness ==
    /\ fn = "from_status"
    /\ fin.v = 27904
    /\ fout = [kind |-> "UserRejected"]

(***************************************************************************)
(* C28: for data of n <= 255 bytes ApduCommand::serialize gives the 5 + n  *)
(* bytes cla, ins, p1, p2, n, data, from which the command is recovered    *)
(* and which no other command gives; for data of more than 255 bytes it    *)
(* panics and gives no frame.                                              *)
(***************************************************************************)
\* The command a frame [cla, ins, p1, p2, lc, data] stands for.
Recover(f) ==
    [cla |-> f[1], ins |-> f[2], p1 |-> f[3], p2 |-> f[4],
     data |-> SubSeq(f, 6, 5 + f[5])]

C28_SerializeRoundTrip ==
    fn = "serialize" =>
        LET c == fin.v
            n == Len(c.data)
        IN  /\ n <= 255 =>
                 /\ fout.kind = "Ok"
                 /\ Len(fout.value) = 5 + n
                 /\ SubSeq(fout.value, 1, 5) = << c.cla, c.ins, c.p1, c.p2, n >>
                 /\ SubSeq(fout.value, 6, 5 + n) = c.data
                 /\ Recover(fout.value) = c
                 /\ \A d \in Commands :
                      (Len(d.data) <= 255
                         /\ ApduCommand_serialize(d) = fout.value) => d = c
            /\ n > 255 => fout = [kind |-> "Panic"]

\* A command with 255 bytes of data gave a frame of 260 bytes.
C28_Witness ==
    /\ fn = "serialize"
    /\ Len(fin.v.data) = 255
    /\ fout.kind = "Ok"
    /\ Len(fout.value) = 260
    /\ fout.value[5] = 255

(***************************************************************************)
(* C29: for a raw response R of at least 2 bytes retcode() is the          *)
(* big-endian value of its last two bytes and data() is R without them;    *)
(* for a shorter R retcode() is 0 and data() is empty.                     *)
(***************************************************************************)
C29_Answer ==
    fn = "from_raw" =>
        LET R == fin.v
            n == Len(R)
        IN  IF n >= 2
            THEN /\ fout.retcode = 256 * R[n - 1] + R[n]
                 /\ fout.data = [i \in 1..(n - 2) |-> R[i]]
            ELSE /\ fout.retcode = 0
                 /\ fout.data = << >>

\* The response 01 90 00 has status 0x9000 and the payload 01.
C29_Witness ==
    /\ fn = "from_raw"
    /\ fin.v = << 1, 144, 0 >>
    /\ fout.retcode = 36864
    /\ fout.data = << 1 >>

(***************************************************************************)
(* C30: Bip32Path::new(c) succeeds, with the path c, exactly when c has at *)
(* least 2 components, c[0] is 44 | 0x80000000, c[1] is 4218 | 0x80000000  *)
(* or 1 | 0x80000000 and every component has the top bit set, and fails    *)
(* with InvalidPath otherwise; iota(a, b, i) and testnet(a, b, i) give     *)
(* paths 44'/4218'/a'/b'/i' and 44'/1'/a'/b'/i' that satisfy the same      *)
(* predicate for all 32-bit a, b, i.                                       *)
(***************************************************************************)
PathInvariant(p) ==
    /\ Len(p) >= 2
    /\ p[1] = [hard |-> TRUE, low |-> 44]
    /\ p[2] \in { [hard |-> TRUE, low |-> 4218], [hard |-> TRUE, low |-> 1] }
    /\ \A i \in 1..Len(p) : p[i].hard

C30_PathInvariants ==
    /\ fn = "new" =>
         /\ PathInvariant(fin.v) => fout = [kind |-> "Ok", value |-> fin.v]
         /\ ~PathInvariant(fin.v) =>
              (fout.kind = "Err" /\ fout.error.kind = "InvalidPath")
    /\ fn \in { "iota", "testnet" } =>
         /\ PathInvariant(fout)
         /\ Len(fout) = 5
         /\ fout[2].low = (IF fn = "iota" THEN 4218 ELSE 1)
         /\ \A j \in 1..3 : fout[2 + j] = [hard |-> TRUE, low |-> fin.v[j].low]

\* new accepted a testnet path of three components.
C30_Witness ==
    /\ fn = "new"
    /\ Len(fin.v) = 3
    /\ fin.v[2].low = 1
    /\ fout.kind = "Ok"
    /\ fout.value = fin.v

(***************************************************************************)
(* C31: for a path of n components that Bip32Path::new accepted,           *)
(* serialize() gives 1 + 4n bytes, the first being n and the others the    *)
(* components as u32 little-endian in order, so that reading [count]       *)
(* [component]* back gives the path.  The code writes the count as         *)
(* `len as u8`: for a path of 256 components the first byte is 0.          *)
(***************************************************************************)
\* The component whose four little-endian bytes start at offset o of b.
ReadU32(b, o) ==
    [hard |-> b[o + 4] >= 128,
     low |-> b[o + 1] + 256 * b[o + 2] + 65536 * b[o + 3]
               + 16777216 * (b[o + 4] % 128)]

\* A decoder of [count: u8][component: u32 LE]*.
Deserialize(b) == [i \in 1..b[1] |-> ReadU32(b, 1 + 4 * (i - 1))]

C31_AsStated ==
    fn = "path_serialize" =>
        LET p == fin.v
            n == Len(p)
        IN  /\ Len(fout) = 1 + 4 * n
            /\ fout[1] = n
            /\ \A i \in 1..n : ReadU32(fout, 1 + 4 * (i - 1)) = p[i]
            /\ Deserialize(fout) = p

TooLarge == Err([kind |-> "Comm", msg |-> "response too large"])

\* Only t has made calls on the handle.
AloneOnHandle(t) == \A i \in DOMAIN iolog : iolog[i] = t

C33_TcpFraming ==
    \A t \in Threads :
        xkind = "tcp" =>
            LET apdu == ApduCommand_serialize(tcmd[t])
                k == trd[t].taken
                L == (k[2] * 256 + k[3]) * 256 + k[4]
                big == k[1] # 0 \/ L > 65536
            IN  /\ (tpc[t] = "write" /\ Len(tout[t]) = 2) =>
                     tout[t] = << << 0, 0, Len(apdu) \div 256, Len(apdu) % 256 >>,
                                  apdu >>
                /\ (tpc[t] = "read" /\ AloneOnHandle(t)) =>
                     /\ devRx = << >>
                     /\ devPending = << DevResponse(apdu) >>
                /\ (tpc[t] = "done" /\ Len(k) >= 4) =>
                     /\ tret[t] = TooLarge <=> big
                     /\ big => Len(k) = 4
                     /\ ~big =>
                          /\ tret[t].kind = "Ok" <=> Len(k) = 4 + L + 2
                          /\ tret[t].kind = "Ok" =>
                               /\ data_of(tret[t].value) = SubSeq(k, 5, 4 + L)
                               /\ retcode(tret[t].value)
                                    = k[5 + L] * 256 + k[6 + L]
                /\ tret[t] = TooLarge => Len(k) = 4

\* One exchange returned the status word 0x9000 with no payload from a
\* frame of length 0; the next one met the length 65537 and returned the
\* error, leaving the four bytes that followed the length unread.
C33_Witness ==
    /\ xkind = "tcp"
    /\ tpc[1] = "done" /\ tret[1] = Ok(<< 144, 0 >>)
    /\ trd[1].taken = << 0, 0, 0, 0, 144, 0 >>
    /\ tpc[2] = "done" /\ tret[2] = TooLarge
    /\ trd[2].taken = << 0, 1, 0, 1 >>
    /\ fromDev = << 170, 187, 144, 0 >>

(***************************************************************************)
(* C35: the buffers write_apdu hands to the HID handle for a command are   *)
(* numbered 0, 1, 2, ... in order; each is 65 bytes: the report prefix 0,  *)
(* the channel 0x0101, the tag 0x05, the sequence number, and a data area  *)
(* filled up with zeros.  The data area of the first buffer holds the      *)
(* length of the command as 16 bits big-endian and the first bytes of the  *)
(* command, that of each later buffer the next 59 bytes.  As stated the    *)
(* first buffer holds the first 59 bytes of the command; amended, the      *)
(* first 57, the length taking two of the 59 bytes of its data area.       *)
(***************************************************************************)
\* Buffer number k (from 0) of a command when the first buffer holds
\* `first` bytes of it.
FrameOf(apdu, k, first) ==
    LET n == Len(apdu)
        body == IF k = 0
                THEN << n \div 256, n % 256 >> \o SubSeq(apdu, 1, Min(first, n))
                ELSE SubSeq(apdu, first + (k - 1) * 59 + 1,
                            Min(first + k * 59, n))
    IN  << 0, 1, 1, 5, k \div 256, k % 256 >> \o body
          \o Repeat(0, 65 - 6 - Len(body))

\* The number of buffers of a command.
FrameCount(apdu, first) ==
    IF Len(apdu) <= first THEN 1
    ELSE 1 + ((Len(apdu) - first + 58) \div 59)

\* The buffers a thread has yet to write are the last ones of its command.
HidFramesAre(first) ==
    \A t \in Threads :
        (xkind = "hid" /\ tpc[t] = "write") =>
            LET apdu == ApduCommand_serialize(tcmd[t])
                done == FrameCount(apdu, first) - Len(tout[t])
            IN  /\ done >= 0
                /\ \A i \in 1..Len(tout[t]) :
                     tout[t][i] = FrameOf(apdu, done + i - 1, first)

C35_AsStated == HidFramesAre(59)

C35_HidWriteFraming == HidFramesAre(57)

\* A command of 125 bytes: two buffers are written, the third holds the
\* last 9 bytes of the command and 50 zeros.
C35_Witness ==
    \E t \in Threads :
        /\ xkind = "hid"
        /\ tpc[t] = "write"
        /\ Len(tcmd[t].data) = 120
        /\ Len(iolog) = 2
        /\ tout[t] = << << 0, 1, 1, 5, 0, 2 >> \o Repeat(t, 9) \o Repeat(0, 50) >>

(***************************************************************************)
(* C36: read_apdu returns a response only from packets that all carry the  *)
(* channel 0x0101, the tag 0x05 and the sequence numbers 0, 1, 2, ... in   *)
(* order, and a packet that does not ends it with a communication error.   *)
(* The response is as long as the first packet declares, never longer: it  *)
(* is the first bytes of the data areas of the packets (57 bytes after the *)
(* length in the first, 59 in the others), read from as many packets as    *)
(* that length needs, one packet and no bytes when it is 0.  Given the     *)
(* frames write_apdu makes of a command, each without its report prefix,   *)
(* it returns the command.                                                 *)
(***************************************************************************)
\* Packet number i (from 1) read by an exchange is one the reader accepts.
GoodPacket(k, i) ==
    /\ k[i][1] = 1 /\ k[i][2] = 1
    /\ k[i][3] = 5
    /\ k[i][4] * 256 + k[i][5] = i - 1

\* The data areas of the packets k, one after the other.
DataAreas(k) ==
    concat([i \in 1..Len(k) |->
               IF i = 1 THEN SubSeq(k[i], 8, 64) ELSE SubSeq(k[i], 6, 64)])

\* The number of packets a response of n bytes takes.
PacketsFor(n) == IF n <= 57 THEN 1 ELSE 1 + ((n - 57 + 58) \div 59)

C36_HidReassembly ==
    \A t \in Threads :
        (xkind = "hid" /\ tpc[t] = "done" /\ trd[t].taken # << >>) =>
            LET k == trd[t].taken
                declared == k[1][6] * 256 + k[1][7]
                apdu == ApduCommand_serialize(tcmd[t])
            IN  /\ \A i \in 1..(Len(k) - 1) : GoodPacket(k, i)
                /\ ~GoodPacket(k, Len(k)) =>
                     /\ tret[t].kind = "Err"
                     /\ tret[t].error.kind = "Comm"
                /\ tret[t].kind = "Ok" =>
                     /\ GoodPacket(k, Len(k))
                     /\ Len(tret[t].value) = declared
                     /\ tret[t].value = Take(DataAreas(k), declared)
                     /\ Len(k) = PacketsFor(declared)
                     /\ declared = 0 => (Len(k) = 1 /\ tret[t].value = << >>)
                /\ k = WrittenFrames(apdu) => tret[t] = Ok(apdu)

\* One exchange was given the three frames of its own command of 125 bytes
\* and returned the command; the other was given a packet declaring the
\* length 0 and returned the empty response.
C36_Witness ==
    \E t, u \in Threads :
        /\ xkind = "hid"
        /\ tpc[t] = "done" /\ Len(tcmd[t].data) = 120
        /\ Len(trd[t].taken) = 3
        /\ tret[t] = Ok(ApduCommand_serialize(tcmd[t]))
        /\ tpc[u] = "done" /\ Len(trd[u].taken) = 1
        /\ trd[u].taken[1][6] = 0 /\ trd[u].taken[1][7] = 0
        /\ tret[u] = Ok(<< >>)

(***************************************************************************)
(* C37: write_uleb128 pushes the canonical unsigned LEB128 encoding of a   *)
(* 64-bit value: every byte but the last has the continuation bit, the     *)
(* last has not; the low seven bits of the bytes are the bits of the       *)
(* value, least significant group first, so that a decoder recovers the    *)
(* value; and the last group is zero only when it is the only one.         *)
(***************************************************************************)
\* Bit j (from 0) of a 64-bit value kept as 16-bit limbs.
BitOf(v, j) == (v[(j \div 16) + 1] \div (2 ^ (j % 16))) % 2

\* Bit j of the value an LEB128 decoder reads from the bytes b.
DecodedBit(b, j) ==
    IF (j \div 7) + 1 > Len(b) THEN 0
    ELSE (b[(j \div 7) + 1] \div (2 ^ (j % 7))) % 2

C37_Uleb128 ==
    fn = "write_uleb128" =>
        LET v == fin.v
            b == fout
            n == Len(b)
        IN  /\ n >= 1 /\ n <= 10
            /\ \A i \in 1..(n - 1) : b[i] >= 128
            /\ b[n] < 128
            /\ \A j \in 0..63 : DecodedBit(b, j) = BitOf(v, j)
            /\ \A j \in 64..(7 * n - 1) : DecodedBit(b, j) = 0
            /\ n > 1 => b[n] # 0
            /\ v = u64(0, 0, 0, 0) => b = << 0 >>
            /\ v = u64(127, 0, 0, 0) => b = << 127 >>
            /\ v = u64(128, 0, 0, 0) => b = << 128, 1 >>
            /\ v = u64(300, 0, 0, 0) => b = << 172, 2 >>

\* u64::MAX was written as nine bytes 0xFF and the byte 0x01.
C37_Witness ==
    /\ fn = "write_uleb128"
    /\ fin.v = u64(65535, 65535, 65535, 65535)
    /\ fout = << 255, 255, 255, 255, 255, 255, 255, 255, 255, 1 >>

(***************************************************************************)
(* C34: as long as every response has a non-empty payload, what the engine *)
(* sends and what it returns are determined by the payloads (and by the    *)
(* transport's failures) alone: each command after START is the answer     *)
(* that the payload before it calls for, and the outcome is the one the    *)
(* payloads call for, Ok with the accumulated bytes after a final message  *)
(* also when its status word is not 0x9000.  No status word occurs in      *)
(* what is expected, so two runs that differ in status words only send     *)
(* the same commands and return the same outcome.                          *)
(***************************************************************************)
\* The i-th response without its last two bytes.
Body(i) == SubSeq(rcvd[i], 1, Len(rcvd[i]) - 2)

AllBodies == \A i \in 1..Len(rcvd) : Len(rcvd[i]) > 2

\* The payload calls for an answer: accumulating, put-chunk, or get-chunk
\* with a whole hash.
Continues(i) ==
    \/ Body(i)[1] \in { DeviceMsg_ResultAccumulating, DeviceMsg_PutChunk }
    \/ Body(i)[1] = DeviceMsg_GetChunk /\ Len(Body(i)) >= 1 + HASH_LEN

\* The chunks pushed by the payloads before the i-th.
BodiesPushed(i) ==
    { Tail(Body(j)) : j \in { k \in 1..(i - 1) : Body(k)[1] = DeviceMsg_PutChunk } }

\* The data of the command the i-th payload calls for.
ExpectedReply(i) ==
    LET h == SubSeq(Body(i), 2, 1 + HASH_LEN)
        blocks == { b \in BlocksOf[call] : BlockHash[call][b] = h }
        pushed == { d \in BodiesPushed(i) : Sha256Of(d) = h }
    IN  IF Body(i)[1] = DeviceMsg_ResultAccumulating THEN << 4 >>
        ELSE IF Body(i)[1] = DeviceMsg_PutChunk THEN << 3 >>
        ELSE IF blocks # {}
        THEN LET b == CHOOSE x \in blocks : TRUE
             IN  << 1 >> \o b.next_hash \o b.data
        ELSE IF pushed # {}
        THEN << 1 >> \o (CHOOSE d \in pushed : TRUE)
        ELSE << 2 >>

\* The bytes the payloads accumulate.
BodiesResult ==
    concat([i \in 1..Len(rcvd) |->
               IF Body(i)[1] \in { DeviceMsg_ResultAccumulating,
                                   DeviceMsg_ResultFinal }
               THEN Tail(Body(i)) ELSE << >>])

\* What execute returns after the payloads received.
ExpectedOutcome ==
    IF xerr # None THEN Err(Transport(xerr))
    ELSE IF Len(sent) > Len(rcvd) THEN Panicked
    ELSE LET last == Body(Len(rcvd))
         IN  IF last[1] = DeviceMsg_ResultFinal THEN Ok(BodiesResult)
             ELSE IF last[1] = DeviceMsg_GetChunk
             THEN Err(BlockProtocol("GET_CHUNK response too short"))
             ELSE Err(BlockProtocol("unknown device message type"))

C34_StatusBlind ==
    (AllBodies /\ sent # << >>) =>
        /\ \A i \in 1..Len(rcvd) :
             IF Continues(i)
             THEN Dispatched(i) =>
                      /\ Len(sent) >= i + 1
                      /\ sent[i + 1].data = ExpectedReply(i)
             ELSE /\ i = Len(rcvd)
                  /\ Len(sent) = i
        /\ Len(sent) <= Len(rcvd) + 1
        /\ pc = "done" =>
             /\ outcome = ExpectedOutcome
             /\ outcome = Panicked => Len(sent[Len(sent)].data) > APDU_MAX_DATA

\* A chunk pushed under the status word 0x6985 was stored and served, and
\* a final message under 0x6985 gave Ok with its 64 bytes.
C34_Witness ==
    /\ pc = "done"
    /\ Len(rcvd) = 3
    /\ rcvd[1] = << DeviceMsg_PutChunk, 5, 6 >> \o SwBytes(SW_UserRejected)
    /\ Body(2)[1] = DeviceMsg_GetChunk
    /\ sent[3].data = << 1, 5, 6 >>
    /\ rcvd[3] = << DeviceMsg_ResultFinal >> \o Signature64 \o SwBytes(SW_UserRejected)
    /\ outcome = Ok(Signature64)

(***************************************************************************)
(* C38: every command the engine hands to transport.exchange has at most   *)
(* 255 data bytes, so that the serialization of a command never panics     *)
(* during an operation.  START and the answers from pre-built blocks keep  *)
(* to it; the answer to a get-chunk for a chunk the device pushed is one   *)
(* byte longer than the chunk, and a pushed chunk may have 255 bytes.      *)
(***************************************************************************)
C38_AsStated ==
    /\ \A n \in 1..Len(sent) : Len(sent[n].data) <= 255
    /\ outcome # Panicked

(***************************************************************************)
(* C39: while execute is in its loop the index built from the parameters   *)
(* is the one built before START, whatever the device pushes.  A step that *)
(* answers a put-chunk changes the put-store alone: the pushed bytes are   *)
(* entered under their SHA-256, every other entry stays, and the result    *)
(* buffer stays.  A step that answers a get-chunk changes neither index    *)
(* nor the result buffer, and answers from the pre-built index when the    *)
(* hash is in it, from the put-store only when it is not.  A step that     *)
(* answers an accumulating message changes neither index.                  *)
(***************************************************************************)
\* execute has answered the message in `response` and holds the next one.
Answers(tag) ==
    /\ pc = "loop" /\ pc' = "loop"
    /\ Len(sent') = Len(sent) + 1
    /\ data_of(response)[1] = tag

C39_IndexSteps ==
    LET d == data_of(response)
        h == Sha256Of(Tail(d))
        asked == SubSeq(d, 2, 1 + HASH_LEN)
        reply == sent'[Len(sent')].data
    IN  /\ (pc = "loop" /\ pc' = "loop") =>
             /\ hash_map' = hash_map
             /\ hash_map = hash_map_of[call]
        /\ Answers(DeviceMsg_PutChunk) =>
             /\ result' = result
             /\ DOMAIN put_store' = DOMAIN put_store \cup { h }
             /\ put_store'[h] = Tail(d)
             /\ \A k \in DOMAIN put_store \ { h } : put_store'[k] = put_store[k]
        /\ Answers(DeviceMsg_GetChunk) =>
             /\ put_store' = put_store
             /\ result' = result
             /\ asked \in DOMAIN hash_map =>
                  reply = << 1 >> \o hash_map[asked].next_hash
                            \o hash_map[asked].data
             /\ (asked \notin DOMAIN hash_map /\ asked \in DOMAIN put_store) =>
                  reply = << 1 >> \o put_store[asked]
             /\ (asked \notin DOMAIN hash_map /\ asked \notin DOMAIN put_store) =>
                  reply = << 2 >>
        /\ Answers(DeviceMsg_ResultAccumulating) => put_store' = put_store

C39_Indices == [][C39_IndexSteps]_vars

\* The device pushed the serialized head block of a parameter, so that its
\* hash is in both indices, and asked for it: the answer came with the
\* block of the pre-built index, and both indices are as they were.
C39_Witness ==
    /\ pc = "loop"
    /\ Len(sent) = 3
    /\ Len(rcvd[1]) > 2 /\ rcvd[1][1] = DeviceMsg_PutChunk
    /\ Cardinality(DOMAIN put_store) = 1
    /\ hash_map = hash_map_of[call]
    /\ \E h \in DOMAIN put_store :
         /\ h \in DOMAIN hash_map
         /\ rcvd[2] = << DeviceMsg_GetChunk >> \o h \o SwBytes(SW_Ok)
         /\ sent[3].data = << 1 >> \o Block_serialize(hash_map[h])

(***************************************************************************)
(* C40: execute returns only after a final message, an empty payload, an   *)
(* unknown tag or a get-chunk cut short, or when the transport fails; it   *)
(* never goes on after one of these, and answers every other message,      *)
(* however many have come.  With every exchange returning and the device   *)
(* ending the operation at some exchange, an operation that has sent START *)
(* returns, having made one exchange for START and one for each message    *)
(* that does not end it.  The loop turns whenever it holds a response       *)
(* (SpecLive).  The run in which the answer to a get-chunk does not fit a   *)
(* command ends in a panic of ApduCommand::serialize, not in a return.      *)
(***************************************************************************)
\* The i-th response ends the operation.
Terminating(i) ==
    \/ Payload(i) = << >>
    \/ IsFinal(i)
    \/ BadTag(i)
    \/ ShortGetChunk(i)

NonTerminating == { i \in 1..Len(rcvd) : ~Terminating(i) }

\* execute has returned a value: it did not unwind from a panic.
Returned == pc = "done" /\ outcome.kind \in { "Ok", "Err" }

C40_ReturnsOnlyWhen ==
    /\ \A i \in 1..(Len(rcvd) - 1) : ~Terminating(i)
    /\ Returned =>
         /\ xerr # None \/ (rcvd # << >> /\ Terminating(Len(rcvd)))
         /\ Len(sent) = 1 + Cardinality(NonTerminating)
    /\ (pc = "loop" /\ Len(rcvd) > 1) => Len(sent) = Len(rcvd)

=============================================================================
